---- MODULE Spec2Model ----
(***************************************************************************)
(* A model of liveusb/creator.py: the device inventory and drive           *)
(* selection of LiveUSBCreator / LinuxLiveUSBCreator (specification Spec), *)
(* the process supervisor popen with the Linux extract_iso on top of it    *)
(* (specification SpecPopen), the arithmetic of check_free_space           *)
(* (specification SpecSpace), update_configs and install_bootloader on the *)
(* files of the destination (specification SpecBoot), the checksum         *)
(* functions (specification SpecVerify), the chunked hashing loop          *)
(* (specification SpecHash), the rewriting of a boot configuration file    *)
(* (specification SpecConfig), and verify_filesystem,                      *)
(* create_persistent_overlay and bootable_partition on the selected drive  *)
(* (specification SpecPrepare), delete_liveos on a destination tree        *)
(* (specification SpecDelete), and the inventory of the Windows backend    *)
(* (specification SpecWindows).                                            *)
(*                                                                         *)
(* Python's None is the string "None" where the other values are strings;  *)
(* an optional number is a sequence, <<>> for None and <<n>> for n.         *)
(***************************************************************************)
EXTENDS Integers, Sequences, FiniteSets, TLC

VARIABLES
    \* ---- LiveUSBCreator attributes (creator.py:60-75) and opts
    drives,         \* self.drives: key -> record
    _drive,         \* self._drive: the selected key, or None
    uuid,           \* self.uuid: cached at selection
    fstype,         \* self.fstype: cached at selection
    dest,           \* self.dest: mount point recorded by mount_device
    isosize,        \* self.isosize
    overlay,        \* self.overlay (MiB)
    totalsize,      \* self.totalsize
    valid_fstypes,  \* self.valid_fstypes after LinuxLiveUSBCreator.__init__
    force,          \* self.opts.force
    callback,       \* self.callback (set by detect_removable_drives)
    receivers,      \* number of handleAdded/handleRemoved pairs subscribed on the bus
    rpc,            \* position of the pipeline thread inside the `drive` property
    last,           \* what the last operation did and returned (observation)
    \* ---- process supervisor (popen) and extract_iso
    output,         \* self.output: the accumulated subprocess log
    logfile,        \* liveusb-creator.log: what write_log has appended so far
    pids,           \* self.pids
    proc,           \* the popen call in progress
    ppc,            \* position inside popen
    xpc,            \* position inside extract_iso
    xst,            \* extract_iso: image/destination facts and what was done
    runs,           \* number of top-level operations started (bounded)
    \* ---- check_free_space on drawn inputs
    freebytes,      \* the value get_free_bytes() reported
    cfs,            \* outcome of check_free_space
    \* ---- operations on the files of the destination and of the image
    destfs,         \* the files under self.dest: path -> lines
    call,           \* the file operation applied last and its outcome
    \* ---- the checksum functions
    iso,            \* self.iso: the path of the image as its components, <<>> for None
    releases,       \* the imported release catalog (creator.py:43)
    hashopt,        \* self.opts.hash
    backend,        \* which subclass of LiveUSBCreator the object is
    image           \* the bytes of the file at self.iso

invVars   == <<drives, _drive, uuid, fstype, dest, valid_fstypes, force,
               callback, receivers, rpc, last>>
sizeVars  == <<isosize, overlay, totalsize>>
popenVars == <<output, logfile, pids, proc, ppc, xpc, xst, runs>>
spaceVars == <<freebytes, cfs>>
fileVars  == <<destfs, call>>
sumVars   == <<iso, releases, hashopt, backend, image>>
vars      == <<invVars, sizeVars, popenVars, spaceVars, fileVars, sumVars>>

None == "None"
MiB  == 1024 * 1024

(***************************************************************************)
(* The universe the inputs are drawn from.                                 *)
(***************************************************************************)
\* UDisks2 object paths of two partitions; the keys of self.drives.
Keys == {"sdb1", "sdc1"}
Device(k) == IF k = "sdb1" THEN "/dev/sdb1" ELSE "/dev/sdc1"
Parent(k) == IF k = "sdb1" THEN "/dev/sdb" ELSE "/dev/sdc"
\* Where the OS mounts a partition.
MountOf(k) == IF k = "sdb1" THEN "/media/sdb1" ELSE "/media/sdc1"
Paths == {MountOf(k) : k \in Keys}
\* What statvfs reports (f_bsize * f_bavail): sdb1 has room, sdc1 is full.
StatFree(path) == IF path = "/media/sdb1" THEN 3 * MiB ELSE 0

FsTypes == {"vfat", "ext4", "ntfs"}
UUIDs   == {"u1", "u2"}
\* get_extlinux_version (creator.py:1115-1129): None, or the major version
ExtlinuxVersions == {<<>>, <<3>>, <<4>>}

\* creator.py:74-75
ext_fstypes == {"ext2", "ext3", "ext4"}
class_valid_fstypes == {"vfat", "msdos"} \cup ext_fstypes

\* LinuxLiveUSBCreator.__init__ (creator.py:511-519)
InitValidFstypes(extlinux) ==
    IF extlinux = <<>> THEN class_valid_fstypes \ ext_fstypes
    ELSE IF extlinux[1] < 4 THEN class_valid_fstypes \ {"ext4"}
    ELSE class_valid_fstypes

(***************************************************************************)
(* Observations: every operation leaves in `last` what it did.             *)
(***************************************************************************)
Obs(op, ret) ==
    [op |-> op, ret |-> ret, val |-> <<>>, path |-> None, name |-> None,
     passed |-> FALSE, cb |-> 0, rec |-> <<>>, pre |-> None,
     dev |-> <<>>, objs |-> <<>>, sig |-> <<>>]

(***************************************************************************)
(* The `drive` property (creator.py:77):                                   *)
(*   self.drives[self._drive] if self._drive and len(self.drives) else None*)
(***************************************************************************)
DriveGuard(D, k) == k # None /\ DOMAIN D # {}
\* "ok" with a record, "none", or "KeyError"
DriveKind(D, k) ==
    IF ~DriveGuard(D, k) THEN "none"
    ELSE IF k \in DOMAIN D THEN "ok" ELSE "KeyError"

(***************************************************************************)
(* LinuxLiveUSBCreator.get_free_bytes (creator.py:903-913).  `exists` is   *)
(* what os.path.exists(device) answers.                                    *)
(***************************************************************************)
get_free_bytes(device, curdest, exists) ==
    LET d == IF device # None THEN device ELSE curdest IN
    IF d = None THEN [ret |-> "ok", val |-> <<0>>, path |-> None]
    ELSE IF ~exists THEN [ret |-> "LiveUSBError", val |-> <<>>, path |-> d]
    ELSE [ret |-> "ok", val |-> <<StatFree(d)>>, path |-> d]

(***************************************************************************)
(* Hotplug: handleAdded / handleRemoved (creator.py:604-689).              *)
(* An event carries the UDisks2 interfaces of the object; `exists` is what *)
(* os.path.exists answers for its first mount point.                       *)
(***************************************************************************)
BaseDevice(k) ==
    [ifaces |-> TRUE, Drive |-> "/org/freedesktop/UDisks2/drives/x",
     Removable |-> TRUE, Optical |-> FALSE, ConnectionBus |-> "usb",
     IdType |-> "vfat", IdUUID |-> "u1", Device |-> Device(k),
     MountPoints |-> <<>>, Size |-> 1]

\* Devices that differ from the base one in what is stored.
StoredKinds == {<<"vfat", "u1">>, <<"ext4", "u2">>, <<"ntfs", "u1">>}
StoredDevices(k) ==
    {[BaseDevice(k) EXCEPT !.IdType = f[1], !.IdUUID = f[2], !.MountPoints = m] :
        f \in StoredKinds, m \in {<<>>, <<MountOf(k)>>}}

\* Devices that differ from the base one in what the filters look at.
FilterDevices(k) ==
    {[BaseDevice(k) EXCEPT !.ifaces = FALSE],
     [BaseDevice(k) EXCEPT !.Drive = "/"],
     [BaseDevice(k) EXCEPT !.Removable = FALSE],
     [BaseDevice(k) EXCEPT !.Optical = TRUE],
     [BaseDevice(k) EXCEPT !.ConnectionBus = "ata"],
     [BaseDevice(k) EXCEPT !.ConnectionBus = "sdio"],
     [BaseDevice(k) EXCEPT !.Size = 0],
     [BaseDevice(k) EXCEPT !.MountPoints = <<"/boot">>],
     [BaseDevice(k) EXCEPT !.MountPoints = <<MountOf(k), "/boot">>],
     [BaseDevice(k) EXCEPT !.MountPoints = <<MountOf(k), "/mnt/other">>]}

Devices(k) == StoredDevices(k) \cup FilterDevices(k)

\* The sticks the pipeline runs are plugged with: supported filesystems.
StickDevices(k) == {d \in StoredDevices(k) : d.IdType # "ntfs"}

\* What GetManagedObjects may hold for an object at enumeration time.
EnumDevices(k) ==
    {BaseDevice(k),
     [BaseDevice(k) EXCEPT !.IdType = "ext4", !.IdUUID = "u2",
                           !.MountPoints = <<MountOf(k)>>]}

Range(s) == {s[i] : i \in DOMAIN s}

\* handleAdded with the unknown-filesystem test never overridden
HandleAddedSkips_NoForce(device, valid, forceopt) ==
    \/ ~device.ifaces
    \/ device.Drive = "/"
    \/ ~device.Removable
    \/ device.Optical
    \/ (device.ConnectionBus # "usb" /\ device.ConnectionBus # "sdio")
    \/ "/boot" \in Range(device.MountPoints)
    \/ (device.Size = 0 /\ forceopt = None)
    \/ device.IdType \notin valid

\* handleAdded with the /boot test overridden by a forced device
HandleAddedSkips_ForcedBoot(device, valid, forceopt) ==
    \/ ~device.ifaces
    \/ device.Drive = "/"
    \/ ~device.Removable
    \/ device.Optical
    \/ (device.ConnectionBus # "usb" /\ device.ConnectionBus # "sdio")
    \/ ("/boot" \in Range(device.MountPoints) /\ forceopt # device.Device)
    \/ (device.Size = 0 /\ forceopt = None)
    \/ (device.IdType \notin valid /\ forceopt # device.Device)

\* The early returns of handleAdded, in the order of the code
\* (creator.py:605-658): TRUE when the device is skipped.
HandleAddedSkips(device, valid, forceopt) ==
    \/ ~device.ifaces                                       \* 605-610
    \/ device.Drive = "/"                                   \* 616-618
    \/ ~device.Removable                                    \* 624-629
    \/ device.Optical
    \/ (device.ConnectionBus # "usb" /\ device.ConnectionBus # "sdio")
    \/ "/boot" \in Range(device.MountPoints)                \* 644-646
    \/ (device.Size = 0 /\ forceopt = None)                 \* 649-651
    \/ (device.IdType \notin valid /\ forceopt # device.Device)  \* 654-658

\* data['mount'] (creator.py:660-667)
FirstMount(device) ==
    IF device.MountPoints # <<>> THEN device.MountPoints[1] ELSE None

\* data['free'] = mount and self.get_free_bytes(mount) / 1024**2 or None
\* (creator.py:669-670), given a successful read `bytes`
FreeField(mount, bytes) ==
    IF mount = None THEN <<>>
    ELSE IF bytes \div MiB = 0 THEN <<>> ELSE <<bytes \div MiB>>

\* The record handleAdded builds (creator.py:631-675); `bytes` is what
\* get_free_bytes(mount) returned
DriveRecord(name, device, bytes) ==
    [device |-> device.Device,
     fstype |-> device.IdType,
     uuid   |-> device.IdUUID,
     mount  |-> FirstMount(device),
     free   |-> FreeField(FirstMount(device), bytes),
     parent |-> Parent(name)]

\* One run of handleAdded on inventory D: the inventory it leaves, whether
\* the device passed the filters, whether the run raised, callback calls.
HandleAddedRun(D, name, device, exists, valid, forceopt, cbk, curdest) ==
    IF HandleAddedSkips(device, valid, forceopt)
    THEN [drives |-> D, passed |-> FALSE, raised |-> FALSE, cb |-> 0]
    ELSE LET mount == FirstMount(device)
             fb == get_free_bytes(mount, curdest, exists) IN
         IF mount # None /\ fb.ret # "ok"
         THEN [drives |-> D, passed |-> TRUE, raised |-> TRUE, cb |-> 0]
         ELSE [drives |-> [k \in DOMAIN D \cup {name} |->
                              IF k = name
                              THEN DriveRecord(name, device,
                                       IF mount = None THEN 0 ELSE fb.val[1])
                              ELSE D[k]],
               passed |-> TRUE, raised |-> FALSE,
               cb |-> IF cbk # None THEN 1 ELSE 0]


\* One run of handleRemoved (creator.py:684-689)
HandleRemovedRun(D, path, cbk) ==
    [drives |-> [k \in DOMAIN D \ {path} |-> D[k]],
     cb |-> IF cbk # None THEN 1 ELSE 0]

\* The bus delivers an event to every subscribed receiver in turn; a
\* receiver that raises does not stop the others.
RECURSIVE DeliverAdded(_, _, _, _, _, _, _, _, _)
DeliverAdded(n, acc, name, device, exists, valid, forceopt, cbk, curdest) ==
    IF n = 0 THEN acc
    ELSE LET r == HandleAddedRun(acc.drives, name, device, exists, valid,
                                 forceopt, cbk, curdest) IN
         DeliverAdded(n - 1,
                      [drives |-> r.drives, passed |-> r.passed,
                       raised |-> acc.raised \/ r.raised, cb |-> acc.cb + r.cb],
                      name, device, exists, valid, forceopt, cbk, curdest)

RECURSIVE DeliverRemoved(_, _, _, _)
DeliverRemoved(n, acc, path, cbk) ==
    IF n = 0 THEN acc
    ELSE LET r == HandleRemovedRun(acc.drives, path, cbk) IN
         DeliverRemoved(n - 1, [drives |-> r.drives, cb |-> acc.cb + r.cb],
                        path, cbk)

\* The hotplug notifications arrive on the bus' own loop, at any moment of
\* the pipeline (spec.md section 5); the loop itself is not in creator.py.
HotplugConcurrent == TRUE
HotplugMayRun == receivers > 0 /\ (HotplugConcurrent \/ rpc = "idle")

\* InterfacesAdded delivered (creator.py:691, 604-682)
Added(name, device, exists) ==
    /\ HotplugMayRun
    /\ LET r == DeliverAdded(receivers,
                    [drives |-> drives, passed |-> FALSE, raised |-> FALSE,
                     cb |-> 0],
                    name, device, exists, valid_fstypes, force, callback, dest)
       IN /\ drives' = r.drives
          /\ last' = [Obs("handleAdded", IF r.raised THEN "LiveUSBError" ELSE "ok")
                        EXCEPT !.name = name, !.passed = r.passed, !.cb = r.cb,
                               !.dev = <<device>>,
                               !.rec = IF r.passed
                                       THEN <<DriveRecord(name, device,
                                                StatFree(FirstMount(device)))>>
                                       ELSE <<>>]
    /\ UNCHANGED <<_drive, uuid, fstype, dest, valid_fstypes, force, callback,
                   receivers, rpc>>
    /\ UNCHANGED <<sizeVars, popenVars, spaceVars, fileVars, sumVars>>

\* InterfacesRemoved delivered (creator.py:692, 684-689)
Removed(path) ==
    /\ HotplugMayRun
    /\ LET r == DeliverRemoved(receivers, [drives |-> drives, cb |-> 0],
                               path, callback)
       IN /\ drives' = r.drives
          /\ last' = [Obs("handleRemoved", "ok") EXCEPT !.name = path,
                                                        !.cb = r.cb]
    /\ UNCHANGED <<_drive, uuid, fstype, dest, valid_fstypes, force, callback,
                   receivers, rpc>>
    /\ UNCHANGED <<sizeVars, popenVars, spaceVars, fileVars, sumVars>>

(***************************************************************************)
(* detect_removable_drives (creator.py:524-529, 599-601, 691-695):         *)
(* set the callback, empty the inventory, subscribe one more pair of       *)
(* receivers, then run handleAdded on every managed object.  `objs` is     *)
(* GetManagedObjects() in iteration order: <<name, device, exists>>.       *)
(***************************************************************************)
MaxReceivers == 2

RECURSIVE Enumerate(_, _, _, _, _, _)
Enumerate(objs, acc, valid, forceopt, cbk, curdest) ==
    IF objs = <<>> \/ acc.raised THEN acc
    ELSE LET o == Head(objs)
             r == HandleAddedRun(acc.drives, o[1], o[2], o[3], valid,
                                 forceopt, cbk, curdest) IN
         Enumerate(Tail(objs),
                   [drives |-> r.drives, passed |-> r.passed,
                    raised |-> r.raised, cb |-> acc.cb + r.cb],
                   valid, forceopt, cbk, curdest)

ManagedObjects ==
    {<<>>} \cup
    UNION {{<<<<k, d, TRUE>>>> : d \in EnumDevices(k)} : k \in Keys} \cup
    {<<<<"sdb1", BaseDevice("sdb1"), TRUE>>, <<"sdc1", d2, TRUE>>>> :
        d2 \in EnumDevices("sdc1")} \cup
    {<<<<"sdc1", d2, e>>, <<"sdb1", BaseDevice("sdb1"), TRUE>>>> :
        d2 \in EnumDevices("sdc1"), e \in BOOLEAN}

\* GetManagedObjects holding one object the filters look at
PolicyObjects ==
    UNION {{<<<<k, d, TRUE>>>> : d \in FilterDevices(k)} : k \in Keys} \cup
    {<<<<"sdb1", BaseDevice("sdb1"), TRUE>>,
       <<"sdb1", [BaseDevice("sdb1") EXCEPT !.MountPoints = <<"/boot">>], TRUE>>>>,
     <<<<"sdb1", [BaseDevice("sdb1") EXCEPT !.IdType = "ntfs"], TRUE>>,
       <<"sdc1", [BaseDevice("sdc1") EXCEPT !.IdType = "ntfs"], TRUE>>>>}

DetectRemovableDrives(cbk, objs) ==
    /\ rpc = "idle"
    /\ receivers < MaxReceivers
    /\ callback' = cbk
    /\ receivers' = receivers + 1
    /\ LET r == Enumerate(objs,
                    [drives |-> <<>>, passed |-> FALSE, raised |-> FALSE,
                     cb |-> 0],
                    valid_fstypes, force, cbk, dest)
       IN /\ drives' = r.drives
          /\ last' = [Obs("detect_removable_drives",
                          IF r.raised THEN "LiveUSBError" ELSE "ok")
                        EXCEPT !.cb = r.cb, !.objs = objs]
    /\ UNCHANGED <<_drive, uuid, fstype, dest, valid_fstypes, force, rpc>>
    /\ UNCHANGED <<sizeVars, popenVars, spaceVars, fileVars, sumVars>>

(***************************************************************************)
(* _set_drive (creator.py:398-414)                                         *)
(***************************************************************************)
DriveArgs == {None} \cup Keys \cup {Device(k) : k \in Keys} \cup {"/dev/nope"}

\* _set_drive that looks the value up among the keys only
ResolveDrive_KeysOnly(D, drive) ==
    IF drive \in DOMAIN D THEN drive ELSE None

\* the key _set_drive resolves `drive` to, or None when there is none
ResolveDrive(D, drive) ==
    IF drive \in DOMAIN D THEN drive
    ELSE IF \E k \in DOMAIN D : D[k].device = drive
         THEN CHOOSE k \in DOMAIN D : D[k].device = drive
         ELSE None

SetDrive(drive) ==
    /\ rpc = "idle"
    /\ IF drive = None
       THEN /\ _drive' = None
            /\ UNCHANGED <<uuid, fstype>>
            /\ last' = Obs("_set_drive", "ok")
       ELSE LET key == ResolveDrive(drives, drive) IN
            IF key = None
            THEN /\ UNCHANGED <<_drive, uuid, fstype>>
                 /\ last' = [Obs("_set_drive", "LiveUSBError") EXCEPT !.pre = drive]
            ELSE /\ _drive' = key
                 /\ uuid' = drives[key].uuid
                 /\ fstype' = drives[key].fstype
                 /\ last' = [Obs("_set_drive", "ok") EXCEPT !.name = key,
                                                           !.pre = drive]
    /\ UNCHANGED <<drives, dest, valid_fstypes, force, callback, receivers, rpc>>
    /\ UNCHANGED <<sizeVars, popenVars, spaceVars, fileVars, sumVars>>

(***************************************************************************)
(* LinuxLiveUSBCreator.mount_device (creator.py:730-781).  What the OS     *)
(* answers is drawn: busOk (the two D-Bus objects were obtained, 744-751), *)
(* mntpnts (the MountPoints query, 753-760), mountRes (the Mount call,     *)
(* 762-770), exists (os.path.exists of the returned path, 772).            *)
(***************************************************************************)
MntpntsResults == {"DBusException", "empty", "mounted"}
MountResults   == {"ok", "DBusException", "Exception"}

\* one answer of the OS for each way through lines 744-770
MountEnvs ==
    {<<FALSE, "empty", "ok">>, <<TRUE, "mounted", "ok">>, <<TRUE, "empty", "ok">>,
     <<TRUE, "DBusException", "ok">>, <<TRUE, "empty", "DBusException">>,
     <<TRUE, "empty", "Exception">>}

\* the value of `mnt` at line 772, or "raise" when line 770 raises
MountRequest(key, busOk, mntpnts, mountRes) ==
    IF ~busOk THEN None
    ELSE IF mntpnts = "mounted" THEN MountOf(key)
    ELSE IF mountRes = "ok" THEN MountOf(key)
    ELSE IF mountRes = "DBusException" THEN None
    ELSE "raise"

\* line 762: the Mount calls made, `if dev and bd and not mnt`
MountCalls(busOk, mntpnts) ==
    IF busOk /\ mntpnts # "mounted" THEN <<"Mount">> ELSE <<>>

\* mount_device that records the mount point and leaves 'free' alone
MountVerify_KeepFree(D, key, mnt, exists) ==
    IF mnt # None /\ ~exists
    THEN [dest |-> None, drives |-> D]
    ELSE [dest |-> mnt, drives |-> [D EXCEPT ![key].mount = mnt]]

\* lines 772-779: the destination and the record after the check of `mnt`
MountVerify(D, key, mnt, exists) ==
    IF mnt # None /\ ~exists
    THEN [dest |-> None, drives |-> D]
    ELSE [dest |-> mnt,
          drives |-> [D EXCEPT ![key].mount = mnt,
                               ![key].free =
                                   <<get_free_bytes(mnt, mnt, TRUE).val[1] \div MiB>>]]

MountDevice(busOk, mntpnts, mountRes, exists) ==
    /\ rpc = "idle"
    /\ LET kind == DriveKind(drives, _drive) IN
       IF fstype = None \/ fstype \notin valid_fstypes
       THEN /\ last' = Obs("mount_device", "LiveUSBError")
            /\ UNCHANGED <<drives, dest>>
       ELSE IF kind # "ok"
       THEN /\ last' = Obs("mount_device",
                           IF kind = "none" THEN "TypeError" ELSE "KeyError")
            /\ UNCHANGED <<drives, dest>>
       ELSE IF drives[_drive].mount # None
       THEN /\ dest' = drives[_drive].mount
            /\ last' = [Obs("mount_device", "ok") EXCEPT !.pre = "mounted"]
            /\ UNCHANGED drives
       ELSE LET mnt == MountRequest(_drive, busOk, mntpnts, mountRes) IN
            IF mnt = "raise"
            THEN /\ dest' = None
                 /\ last' = [Obs("mount_device", "LiveUSBError")
                               EXCEPT !.pre = "unmounted",
                                      !.objs = MountCalls(busOk, mntpnts)]
                 /\ UNCHANGED drives
            ELSE LET v == MountVerify(drives, _drive, mnt, exists) IN
                 /\ dest' = v.dest
                 /\ drives' = v.drives
                 /\ last' = [Obs("mount_device", "ok")
                               EXCEPT !.pre = "unmounted", !.path = mnt,
                                      !.passed = (mnt # None /\ exists),
                                      !.objs = MountCalls(busOk, mntpnts)]
    /\ UNCHANGED <<_drive, uuid, fstype, valid_fstypes, force, callback,
                   receivers, rpc>>
    /\ UNCHANGED <<sizeVars, popenVars, spaceVars, fileVars, sumVars>>

(***************************************************************************)
(* LinuxLiveUSBCreator.unmount_device (creator.py:783-790).  The umount    *)
(* command runs passive, so popen returns whatever its exit code rc; its   *)
(* log is the subject of SpecPopen.  `still` is whether the device is      *)
(* mounted when the command has ended: only a failed umount of a mounted   *)
(* device leaves it so.                                                    *)
(***************************************************************************)
UnmountDevice(rc, still) ==
    /\ rpc = "idle"
    /\ still => (rc # 0 /\ DriveKind(drives, _drive) = "ok"
                        /\ drives[_drive].mount # None)
    /\ LET kind == DriveKind(drives, _drive) IN
       IF kind # "ok"
       THEN /\ last' = Obs("unmount_device",
                           IF kind = "none" THEN "TypeError" ELSE "KeyError")
            /\ UNCHANGED <<drives, dest>>
       ELSE /\ drives' = [drives EXCEPT ![_drive].mount = None]
            /\ dest' = None
            \* os.path.exists(None) raises TypeError at line 788
            /\ last' = [Obs("unmount_device",
                            IF dest = None THEN "TypeError" ELSE "ok")
                          EXCEPT !.val = <<rc>>, !.passed = ~still]
    /\ UNCHANGED <<_drive, uuid, fstype, valid_fstypes, force, callback,
                   receivers, rpc>>
    /\ UNCHANGED <<sizeVars, popenVars, spaceVars, fileVars, sumVars>>

(***************************************************************************)
(* get_free_bytes called by the pipeline (creator.py:903-913), with an     *)
(* explicit mount path or with None for "the selected drive".              *)
(***************************************************************************)
GetFreeBytes(device, exists) ==
    /\ rpc = "idle"
    /\ LET r == get_free_bytes(device, dest, exists) IN
       last' = [Obs("get_free_bytes", r.ret)
                  EXCEPT !.val = r.val, !.path = r.path, !.name = device]
    /\ UNCHANGED <<drives, _drive, uuid, fstype, dest, valid_fstypes, force,
                   callback, receivers, rpc>>
    /\ UNCHANGED <<sizeVars, popenVars, spaceVars, fileVars, sumVars>>

(***************************************************************************)
(* check_free_space (creator.py:252-263)                                   *)
(***************************************************************************)
\* line 257-259
TotalSize(size, ovl) == ovl * 1024 * 1024 + size
\* check_free_space with `>=` for `>`
NotEnoughSpace_Inclusive(size, ovl, free) == ovl * 1024 * 1024 + size >= free

\* line 260: TRUE when the LiveUSBError is raised
NotEnoughSpace(size, ovl, free) == TotalSize(size, ovl) > free

CheckFreeSpace(exists) ==
    /\ rpc = "idle"
    /\ LET r == get_free_bytes(None, dest, exists) IN
       IF r.ret # "ok"
       THEN /\ last' = [Obs("check_free_space", r.ret) EXCEPT !.path = r.path,
                                                    !.pre = "get_free_bytes"]
            /\ UNCHANGED totalsize
       ELSE /\ totalsize' = TotalSize(isosize, overlay)
            /\ last' = [Obs("check_free_space",
                            IF NotEnoughSpace(isosize, overlay, r.val[1])
                            THEN "LiveUSBError" ELSE "ok")
                          EXCEPT !.val = r.val, !.path = r.path,
                                 !.pre = "compare"]
    /\ UNCHANGED <<drives, _drive, uuid, fstype, dest, valid_fstypes, force,
                   callback, receivers, rpc>>
    /\ UNCHANGED <<isosize, overlay, popenVars, spaceVars, fileVars, sumVars>>

(***************************************************************************)
(* A pipeline read of self.drive (creator.py:77), in the two steps Python  *)
(* evaluates it in: the condition `self._drive and len(self.drives)`,      *)
(* then the lookup `self.drives[self._drive]`.                             *)
(***************************************************************************)
ReadDriveCheck ==
    /\ rpc = "idle"
    /\ IF DriveGuard(drives, _drive)
       THEN /\ rpc' = "checked"
            /\ last' = [Obs("drive", "checked") EXCEPT !.name = _drive]
       ELSE /\ rpc' = "idle"
            /\ last' = [Obs("drive", "none") EXCEPT !.name = _drive]
    /\ UNCHANGED <<drives, _drive, uuid, fstype, dest, valid_fstypes, force,
                   callback, receivers>>
    /\ UNCHANGED <<sizeVars, popenVars, spaceVars, fileVars, sumVars>>

ReadDriveLookup ==
    /\ rpc = "checked"
    /\ rpc' = "idle"
    /\ last' = [Obs("drive", IF _drive \in DOMAIN drives THEN "ok" ELSE "KeyError")
                  EXCEPT !.name = _drive,
                         !.rec = IF _drive \in DOMAIN drives
                                 THEN <<drives[_drive]>> ELSE <<>>]
    /\ UNCHANGED <<drives, _drive, uuid, fstype, dest, valid_fstypes, force,
                   callback, receivers>>
    /\ UNCHANGED <<sizeVars, popenVars, spaceVars, fileVars, sumVars>>

(***************************************************************************)
(* Initial states                                                          *)
(***************************************************************************)
\* the class attributes (creator.py:60-75) and the options
InitInventory(extlinux, forceopts) ==
    /\ drives = <<>>
    /\ _drive = None
    /\ uuid = None
    /\ fstype = None
    /\ dest = None
    /\ valid_fstypes \in {InitValidFstypes(v) : v \in extlinux}
    /\ force \in forceopts
    /\ callback = None
    /\ receivers = 0
    /\ rpc = "idle"
    /\ last = Obs("init", "ok")

NoProc == [cmd |-> None, passive |-> FALSE, rc |-> 0, id |-> 0, hup |-> FALSE,
           error |-> <<>>]
\* the top-level operation in progress (or the last one): which one, what
\* the image and the destination hold, what has been done, how it ended
NoOp == [op |-> None, liveos |-> FALSE, osmin |-> FALSE, efi |-> FALSE,
         destefi |-> FALSE, mounted |-> FALSE, mountId |-> 0, umounts |-> 0,
         copied |-> {}, error |-> None, failed |-> None, result |-> None]

InitPopen ==
    /\ output = <<>>
    /\ logfile = <<>>
    /\ pids = <<>>
    /\ proc = NoProc
    /\ ppc = "idle"
    /\ xpc = "idle"
    /\ xst = NoOp
    /\ runs = 0

InitSpace ==
    /\ freebytes = 0
    /\ cfs = "none"

\* no file operation has run; nothing is known of the destination
NoCall == [op |-> None, ret |-> None, args |-> <<>>, effects |-> <<>>,
           before |-> <<>>, alg |-> None, digest |-> <<>>, read |-> <<>>]
InitFiles ==
    /\ destfs = <<>>
    /\ call = NoCall

\* no image is selected, the catalog is empty, the Linux backend runs
InitSums ==
    /\ iso = <<>>
    /\ releases = <<>>
    /\ hashopt = "sha1"
    /\ backend = "linux"
    /\ image = <<>>

\* The pipeline with the hotplug events around it: extlinux 4 is
\* installed, nothing is forced, set_iso has selected a 2 MiB image and a
\* 1 MiB overlay is requested.
Init ==
    /\ InitInventory({<<4>>}, {None})
    /\ isosize = 2 * MiB /\ overlay = 1 /\ totalsize = 0
    /\ InitPopen
    /\ InitSpace
    /\ InitFiles
    /\ InitSums

Next ==
    \/ \E objs \in ManagedObjects : DetectRemovableDrives("cb", objs)
    \/ \E k \in Keys : \E d \in StickDevices(k), e \in BOOLEAN : Added(k, d, e)
    \/ \E k \in Keys : Removed(k)
    \/ \E d \in DriveArgs : SetDrive(d)
    \/ \E m \in MountEnvs, e \in BOOLEAN : MountDevice(m[1], m[2], m[3], e)
    \/ \E rc \in {0, 1}, still \in BOOLEAN : UnmountDevice(rc, still)
    \/ \E p \in {None} \cup Paths, e \in BOOLEAN : GetFreeBytes(p, e)
    \/ \E e \in BOOLEAN : CheckFreeSpace(e)
    \/ ReadDriveCheck
    \/ ReadDriveLookup

Spec == Init /\ [][Next]_vars

\* The inventory alone, under every enumeration policy input: any extlinux,
\* with and without a forced device, every kind of device.
InitHotplug ==
    /\ InitInventory(ExtlinuxVersions, {None, Device("sdb1")})
    /\ isosize = 2 * MiB /\ overlay = 1 /\ totalsize = 0
    /\ InitPopen
    /\ InitSpace
    /\ InitFiles
    /\ InitSums

NextHotplug ==
    \/ \E cbk \in {None, "cb"}, objs \in ManagedObjects \cup PolicyObjects :
           DetectRemovableDrives(cbk, objs)
    \/ \E k \in Keys : \E d \in Devices(k), e \in BOOLEAN : Added(k, d, e)
    \/ \E k \in Keys : Removed(k)

SpecHotplug == InitHotplug /\ [][NextHotplug]_vars

(***************************************************************************)
(* The process supervisor: LiveUSBCreator.popen (creator.py:179-211) and   *)
(* write_log (creator.py:364-371), one step per statement that another     *)
(* thread or the process itself can observe.                               *)
(*   idle -> logged    self.output.write(cmd)                 line 193     *)
(*        -> spawned   subprocess.Popen(...)                  line 194     *)
(*        -> tracked   self.pids.append(proc.pid)             line 197     *)
(*        -> exited    proc.communicate()                     line 198     *)
(*        -> written   self.output.write(out + err)           line 203     *)
(*        -> returned | raised   the exit code is inspected   line 204-211 *)
(***************************************************************************)
ExitCodes == {0, 1, -1}

\* the number of commands logged so far
RECURSIVE CountCmds(_)
CountCmds(log) ==
    IF log = <<>> THEN 0
    ELSE (IF Head(log)[1] = "cmd" THEN 1 ELSE 0) + CountCmds(Tail(log))

\* popen is entered: the command line goes to the log first (line 193)
PopenEnter(cmd, passive) ==
    /\ proc' = [cmd |-> cmd, passive |-> passive, rc |-> 0,
                id |-> CountCmds(output) + 1, hup |-> FALSE, error |-> <<>>]
    /\ output' = Append(output, <<"cmd", CountCmds(output) + 1, cmd>>)
    /\ ppc' = "logged"

PopenSpawn ==
    /\ ppc = "logged"
    /\ ppc' = "spawned"
    /\ UNCHANGED <<output, logfile, pids, proc, xpc, xst, runs>>
    /\ UNCHANGED <<invVars, sizeVars, spaceVars, fileVars, sumVars>>

PopenTrack ==
    /\ ppc = "spawned"
    /\ pids' = Append(pids, proc.id)
    /\ ppc' = "tracked"
    /\ UNCHANGED <<output, logfile, proc, xpc, xst, runs>>
    /\ UNCHANGED <<invVars, sizeVars, spaceVars, fileVars, sumVars>>

\* the process ends with exit code rc and communicate() returns; a process
\* that terminate() signalled died of SIGHUP: returncode -1
PopenCommunicate(rc) ==
    /\ ppc = "tracked"
    /\ proc.hup => rc = -1
    /\ proc' = [proc EXCEPT !.rc = rc]
    /\ ppc' = "exited"
    /\ UNCHANGED <<output, logfile, pids, xpc, xst, runs>>
    /\ UNCHANGED <<invVars, sizeVars, spaceVars, fileVars, sumVars>>

\* popen with line 203 left out: the output never reaches the log
PopenWriteOutput_Skipped ==
    /\ ppc = "exited"
    /\ ppc' = "written"
    /\ UNCHANGED <<output, logfile, pids, proc, xpc, xst, runs>>
    /\ UNCHANGED <<invVars, sizeVars, spaceVars, fileVars, sumVars>>

PopenWriteOutput ==
    /\ ppc = "exited"
    /\ output' = Append(output, <<"out", proc.id, proc.cmd>>)
    /\ ppc' = "written"
    /\ UNCHANGED <<logfile, pids, proc, xpc, xst, runs>>
    /\ UNCHANGED <<invVars, sizeVars, spaceVars, fileVars, sumVars>>

\* popen that forgets `passive`
PopenRaises_AnyFailure(rc, passive) == rc # 0

\* line 204: `if proc.returncode`
PopenFailed(rc) == rc # 0

\* line 206: `if not passive: raise`
PopenRaises(rc, passive) == PopenFailed(rc) /\ ~passive
\* write_log appends the whole of self.output to the log file
write_log(file, log) == file \o log
\* write_log returns os.path.join(os.getenv('TEMP', '/tmp'),
\* 'liveusb-creator.log') (creator.py:366-367, 371)
LogFileName == "/tmp/liveusb-creator.log"

\* popen raising with the exit status in place of the error output
PopenError_ExitStatus(cmd, id, rc, filename) ==
    <<<<"cmd", cmd>>, <<"returncode", rc>>, <<"filename", filename>>>>

\* lines 207-210: what the message of the LiveUSBError is formatted from,
\* (cmd, err, filename); err is what process `id` wrote to its stderr
PopenError(cmd, id, rc, filename) ==
    <<<<"cmd", cmd>>, <<"err", id>>, <<"filename", filename>>>>

PopenInspect ==
    /\ ppc = "written"
    /\ logfile' = IF PopenFailed(proc.rc) THEN write_log(logfile, output)
                  ELSE logfile
    /\ ppc' = IF PopenRaises(proc.rc, proc.passive) THEN "raised" ELSE "returned"
    /\ proc' = IF PopenRaises(proc.rc, proc.passive)
               THEN [proc EXCEPT !.error =
                        PopenError(proc.cmd, proc.id, proc.rc, LogFileName)]
               ELSE proc
    /\ UNCHANGED <<output, pids, xpc, xst, runs>>
    /\ UNCHANGED <<invVars, sizeVars, spaceVars, fileVars, sumVars>>

PopenOver == ppc \in {"returned", "raised"}

(***************************************************************************)
(* LinuxLiveUSBCreator.terminate (creator.py:921-927), called from another *)
(* thread at any moment: os.kill(pid, SIGHUP) for every pid of self.pids,  *)
(* each in its own try/except OSError.  The only tracked process that is   *)
(* alive is the one popen waits for; os.kill raises OSError for the rest.  *)
(***************************************************************************)
Alive(pid) == ppc = "tracked" /\ pid = proc.id

\* the os.kill calls of one terminate(), in order, with their outcomes
Signals(tracked) ==
    [i \in DOMAIN tracked |->
        <<tracked[i], IF Alive(tracked[i]) THEN "ok" ELSE "OSError">>]

Terminate ==
    /\ last' = [Obs("terminate", "ok")
                  EXCEPT !.sig = Signals(pids),
                         !.val = IF \E i \in DOMAIN pids : Alive(pids[i])
                                 THEN <<proc.id>> ELSE <<>>,
                         !.pre = ppc]
    /\ proc' = [proc EXCEPT !.hup = @ \/ (\E i \in DOMAIN pids : Alive(pids[i]))]
    /\ UNCHANGED <<drives, _drive, uuid, fstype, dest, valid_fstypes, force,
                   callback, receivers, rpc>>
    /\ UNCHANGED <<output, logfile, pids, ppc, xpc, xst, runs>>
    /\ UNCHANGED <<sizeVars, spaceVars, fileVars, sumVars>>

(***************************************************************************)
(* Two callers of popen with one command each: flush_buffers              *)
(* (creator.py:1109-1110, passive) and format_device (creator.py:1028-1031)*)
(***************************************************************************)
MaxRuns == 2

StartFlushBuffers ==
    /\ xpc = "idle" /\ ppc = "idle" /\ runs < MaxRuns
    /\ runs' = runs + 1
    /\ xpc' = "flush_buffers"
    /\ xst' = [NoOp EXCEPT !.op = "flush_buffers"]
    /\ PopenEnter("sync", TRUE)
    /\ UNCHANGED <<logfile, pids>>
    /\ UNCHANGED <<invVars, sizeVars, spaceVars, fileVars, sumVars>>

StartFormatDevice ==
    /\ xpc = "idle" /\ ppc = "idle" /\ runs < MaxRuns
    /\ runs' = runs + 1
    /\ xpc' = "format_device"
    /\ xst' = [NoOp EXCEPT !.op = "format_device"]
    /\ PopenEnter("mkfs.vfat", FALSE)
    /\ UNCHANGED <<logfile, pids>>
    /\ UNCHANGED <<invVars, sizeVars, spaceVars, fileVars, sumVars>>

\* popen returns to (or raises through) its caller
FinishCommand ==
    /\ xpc \in {"flush_buffers", "format_device"} /\ PopenOver
    /\ xst' = [xst EXCEPT !.result = IF ppc = "raised" THEN "raised" ELSE "ok"]
    /\ xpc' = "idle"
    /\ ppc' = "idle"
    /\ UNCHANGED <<output, logfile, pids, proc, runs>>
    /\ UNCHANGED <<invVars, sizeVars, spaceVars, fileVars, sumVars>>

(***************************************************************************)
(* LinuxLiveUSBCreator.extract_iso (creator.py:818-861).  xpc names the    *)
(* command extract_iso is waiting for.                                     *)
(***************************************************************************)
ExtractCommands ==
    {"mount", "cp_squashfs", "cp_osmin", "cp_isolinux", "cp_efi", "umount"}

\* what the image holds and whether the destination has an EFI directory
ImageFacts ==
    {[liveos |-> FALSE, osmin |-> FALSE, efi |-> FALSE, destefi |-> FALSE],
     [liveos |-> TRUE,  osmin |-> FALSE, efi |-> FALSE, destefi |-> FALSE],
     [liveos |-> TRUE,  osmin |-> TRUE,  efi |-> TRUE,  destefi |-> FALSE],
     [liveos |-> TRUE,  osmin |-> FALSE, efi |-> TRUE,  destefi |-> TRUE]}

\* extract_iso without the try/finally: the umount only follows the
\* last copy
ExtractNext_NoFinally(pc, raised, st) ==
    CASE pc = "mount" ->
            IF raised \/ ~st.liveos THEN "raised" ELSE "cp_squashfs"
      [] pc = "cp_squashfs" ->
            IF raised THEN "raised"
            ELSE IF st.osmin THEN "cp_osmin" ELSE "cp_isolinux"
      [] pc = "cp_osmin" ->
            IF raised THEN "raised" ELSE "cp_isolinux"
      [] pc = "cp_isolinux" ->
            IF raised THEN "raised"
            ELSE IF st.efi /\ ~st.destefi THEN "cp_efi"
            ELSE "umount"
      [] pc = "cp_efi" -> IF raised THEN "raised" ELSE "umount"
      [] pc = "umount" ->
            IF raised \/ st.error # None THEN "raised" ELSE "done"

\* Where extract_iso goes when the command at `pc` has returned
\* (raised = FALSE) or raised: the next command, "done" or "raised".
ExtractNext(pc, raised, st) ==
    CASE pc = "mount" ->                                    \* 822, outside try
            IF raised THEN "raised"
            ELSE IF ~st.liveos THEN "umount"                \* 825-826, finally
            ELSE "cp_squashfs"                              \* 832
      [] pc = "cp_squashfs" ->
            IF raised THEN "umount"
            ELSE IF st.osmin THEN "cp_osmin" ELSE "cp_isolinux"   \* 841-846
      [] pc = "cp_osmin" ->
            IF raised THEN "umount" ELSE "cp_isolinux"      \* 848-852
      [] pc = "cp_isolinux" ->
            IF raised THEN "umount"
            ELSE IF st.efi /\ ~st.destefi THEN "cp_efi"     \* 854-859
            ELSE "umount"
      [] pc = "cp_efi" -> "umount"                          \* 860-861
      [] pc = "umount" ->
            IF raised \/ st.error # None THEN "raised" ELSE "done"

\* the exception extract_iso is unwinding with after the command at `pc`
ExtractError(pc, raised, st) ==
    IF raised THEN pc
    ELSE IF pc = "mount" /\ ~st.liveos THEN "Unable to find LiveOS on ISO"
    ELSE st.error

StartExtractIso(facts) ==
    /\ xpc = "idle" /\ ppc = "idle" /\ runs < MaxRuns
    /\ runs' = runs + 1
    /\ xpc' = "mount"
    /\ xst' = [NoOp EXCEPT !.op = "extract_iso", !.liveos = facts.liveos,
                           !.osmin = facts.osmin, !.efi = facts.efi,
                           !.destefi = facts.destefi]
    /\ PopenEnter("mount", FALSE)
    /\ UNCHANGED <<logfile, pids>>
    /\ UNCHANGED <<invVars, sizeVars, spaceVars, fileVars, sumVars>>

ExtractStep ==
    /\ xpc \in ExtractCommands /\ PopenOver
    /\ LET raised == (ppc = "raised")
           next == ExtractNext(xpc, raised, xst)
           st == [xst EXCEPT
                    !.error = ExtractError(xpc, raised, xst),
                    \* the copy command that raised inside the try
                    !.failed = IF raised /\ xpc \notin {"mount", "umount"}
                               THEN xpc ELSE @,
                    !.mounted = @ \/ (xpc = "mount" /\ ~raised),
                    !.mountId = IF xpc = "mount" /\ ~raised THEN proc.id ELSE @,
                    !.copied = IF xpc \in {"mount", "umount"} \/ raised THEN @
                               ELSE @ \cup {xpc},
                    !.umounts = IF next = "umount" THEN @ + 1 ELSE @]
       IN IF next \in {"done", "raised"}
          THEN /\ xst' = [st EXCEPT !.result = IF next = "done" THEN "ok"
                                               ELSE "raised"]
               /\ xpc' = "idle"
               /\ ppc' = "idle"
               /\ UNCHANGED <<output, logfile, pids, proc>>
          ELSE /\ xst' = st
               /\ xpc' = next
               /\ PopenEnter(next, FALSE)
               /\ UNCHANGED <<logfile, pids>>
    /\ UNCHANGED runs
    /\ UNCHANGED <<invVars, sizeVars, spaceVars, fileVars, sumVars>>

InitSupervisor ==
    /\ InitInventory({<<4>>}, {None})
    /\ isosize = 2 * MiB /\ overlay = 1 /\ totalsize = 0
    /\ InitPopen
    /\ InitSpace
    /\ InitFiles
    /\ InitSums

NextPopen ==
    \/ StartFlushBuffers
    \/ StartFormatDevice
    \/ FinishCommand
    \/ \E f \in ImageFacts : StartExtractIso(f)
    \/ ExtractStep
    \/ PopenSpawn
    \/ PopenTrack
    \/ \E rc \in ExitCodes : PopenCommunicate(rc)
    \/ PopenWriteOutput
    \/ PopenInspect
    \/ Terminate

SpecPopen == InitSupervisor /\ [][NextPopen]_vars

(***************************************************************************)
(* check_free_space on drawn inputs: the image size, the overlay size and  *)
(* the free bytes get_free_bytes() reported are drawn, then the check runs.*)
(***************************************************************************)
IsoSizes   == {0, MiB - 1, MiB, MiB + 1, 2 * MiB, 800000000}
Overlays   == {0, 1, 2}
FreeValues == {0, MiB, 2 * MiB - 1, 2 * MiB, 2 * MiB + 1, 3 * MiB, 4 * MiB,
               700000000, 800000000, 900000000}

InitCheckSpace ==
    /\ InitInventory({<<4>>}, {None})
    /\ InitPopen
    /\ isosize \in IsoSizes
    /\ overlay \in Overlays
    /\ totalsize = 0
    /\ freebytes \in FreeValues
    /\ cfs = "none"
    /\ InitFiles
    /\ InitSums

\* check_free_space reporting the byte counts it compared
ErrorFigures_Bytes(size, ovl, free) ==
    [required |-> ovl * 1024 * 1024 + size, free |-> free, unit |-> "B"]

\* lines 261-263: the figures of the message, "Required: %s. Free: %s." of
\* str(self.isosize/1024**2 + self.overlay) + "MB" and
\* str(freebytes/1024**2) + "MB"
ErrorFigures(size, ovl, free) ==
    [required |-> size \div (1024 * 1024) + ovl,
     free     |-> free \div (1024 * 1024),
     unit     |-> "MB"]

CheckFreeSpaceOn ==
    /\ cfs = "none"
    /\ totalsize' = TotalSize(isosize, overlay)
    /\ cfs' = IF NotEnoughSpace(isosize, overlay, freebytes)
              THEN "LiveUSBError" ELSE "ok"
    /\ call' = [NoCall EXCEPT
                  !.op = "check_free_space",
                  !.ret = cfs',
                  !.effects = IF NotEnoughSpace(isosize, overlay, freebytes)
                              THEN <<ErrorFigures(isosize, overlay, freebytes)>>
                              ELSE <<>>]
    /\ UNCHANGED <<isosize, overlay, freebytes, destfs>>
    /\ UNCHANGED <<invVars, popenVars, sumVars>>

\* the caller handles the outcome and may check again
CheckFreeSpaceAgain ==
    /\ cfs # "none"
    /\ cfs' = "none"
    /\ UNCHANGED <<isosize, overlay, totalsize, freebytes>>
    /\ UNCHANGED <<invVars, popenVars, fileVars, sumVars>>

NextSpace == CheckFreeSpaceOn \/ CheckFreeSpaceAgain

SpecSpace == InitCheckSpace /\ [][NextSpace]_vars

(***************************************************************************)
(* The boot configuration files.  A file is a sequence of lines, a line a  *)
(* sequence of tokens separated by single spaces:                           *)
(*   <<"w", word>>            a word                                       *)
(*   <<"LABEL", pre, val>>    the text  pre LABEL= val                     *)
(*   <<"rootfstype", val>>    the text  rootfstype= val                    *)
(*   <<":", text>>            the text  : text  with no space before it    *)
(* A label is written as its characters up to the first space or colon,    *)
(* which is what LABEL=[^ :]* matches when the line is read again, and the *)
(* tokens that the rest of it makes.                                       *)
(***************************************************************************)
W(word) == <<"w", word>>
HasWord(line, word) == \E i \in DOMAIN line : line[i] = W(word)
HasLabel(line) == \E i \in DOMAIN line : line[i][1] = "LABEL"

\* str.replace(word, word + " " + extra) that replaces the first `word` only
RECURSIVE InsertAfter_First(_, _, _)
InsertAfter_First(line, word, extra) ==
    IF line = <<>> THEN <<>>
    ELSE IF Head(line) = W(word)
         THEN <<Head(line)>> \o extra \o Tail(line)
         ELSE <<Head(line)>> \o InsertAfter_First(Tail(line), word, extra)

\* str.replace(word, word + " " + extra): every `word` followed by `extra`
RECURSIVE InsertAfter(_, _, _)
InsertAfter(line, word, extra) ==
    IF line = <<>> THEN <<>>
    ELSE IF Head(line) = W(word)
         THEN <<Head(line)>> \o extra \o InsertAfter(Tail(line), word, extra)
         ELSE <<Head(line)>> \o InsertAfter(Tail(line), word, extra)

\* line.replace(" ro ", " rw "): a word `ro` with a space on both sides,
\* so neither the first word of the line nor the last (a newline follows);
\* matches do not overlap, so the space that ends one cannot begin the next
Flipped(line, i) == line[i] = W("ro") /\ i > 1 /\ i < Len(line)
RECURSIVE RoMatches(_, _, _)
RoMatches(line, i, free) ==
    IF i > Len(line) THEN {}
    ELSE IF Flipped(line, i) /\ free
         THEN {i} \cup RoMatches(line, i + 1, FALSE)
         ELSE RoMatches(line, i + 1, TRUE)
RoToRw(line) ==
    [i \in DOMAIN line |->
        IF i \in RoMatches(line, 1, TRUE) THEN W("rw") ELSE line[i]]

\* 'LABEL=' + self.label (line 280) as the tokens it makes in a line
LabelHead(label) ==
    IF label = "MY LIVE" THEN "MY" ELSE IF label = "A:B" THEN "A" ELSE label
LabelTail(label) ==
    IF label = "MY LIVE" THEN <<W("LIVE")>>
    ELSE IF label = "A:B" THEN <<<<":", "B">>>>
    ELSE <<>>
LabelTokens(pre, label) == <<<<"LABEL", pre, LabelHead(label)>>>> \o LabelTail(label)

RECURSIVE Flatten(_)
Flatten(ss) == IF ss = <<>> THEN <<>> ELSE Head(ss) \o Flatten(Tail(ss))

\* lines 282-286 with the label put before the old value
SubLabel_Prepend(line, label, fst) ==
    IF ~HasLabel(line) THEN line
    ELSE [i \in DOMAIN line |->
            IF line[i][1] = "LABEL"
            THEN <<"LABEL", line[i][2], label \o line[i][3]>>
            ELSE IF line[i][1] = "rootfstype" THEN <<"rootfstype", fst>>
            ELSE line[i]]

\* lines 282-286
SubLabel(line, label, fst) ==
    IF ~HasLabel(line) THEN line
    ELSE Flatten([i \in DOMAIN line |->
            IF line[i][1] = "LABEL" THEN LabelTokens(line[i][2], label)
            ELSE IF line[i][1] = "rootfstype" THEN <<<<"rootfstype", fst>>>>
            ELSE <<line[i]>>])

\* lines 287-288
SubIsolinux(line) ==
    [i \in DOMAIN line |-> IF line[i] = W("isolinux") THEN W("syslinux") ELSE line[i]]

\* lines 289-303 for the boot parameter `word` and its overlay option
SubLive(line, word, ovlpre, label, ovl, kargs) ==
    LET l1 == IF ovl # 0
              THEN RoToRw(InsertAfter(line, word, LabelTokens(ovlpre, label)))
              ELSE line
    IN IF kargs # <<>>
       THEN InsertAfter(l1, word, [i \in DOMAIN kargs |-> W(kargs[i])])
       ELSE l1

\* one line through the loop body of _update_configs (creator.py:281-304)
UpdateLine(line, label, fst, ovl, kargs) ==
    LET l2 == SubIsolinux(SubLabel(line, label, fst)) IN
    IF HasWord(l2, "liveimg")
    THEN SubLive(l2, "liveimg", "overlay=", label, ovl, kargs)
    ELSE IF HasWord(l2, "rd.live.image")
    THEN SubLive(l2, "rd.live.image", "rd.live.overlay=", label, ovl, kargs)
    ELSE l2

\* _update_configs (creator.py:277-306): the lines written to outfile
update_config_lines(lines, label, fst, ovl, kargs) ==
    [i \in DOMAIN lines |-> UpdateLine(lines[i], label, fst, ovl, kargs)]

\* the files of an image as extract_iso leaves them, and older files
IsolinuxCfg ==
    <<<<W("append"), <<"LABEL", "root=live:CD", "Fedora">>,
        <<"rootfstype", "auto">>, W("ro"), W("liveimg"), W("quiet")>>,
      <<W("kernel"), W("isolinux")>>>>
GrubCfg ==
    <<<<W("linuxefi"), <<"LABEL", "root=live:", "Fedora">>,
        <<"rootfstype", "auto">>, W("ro"), W("rd.live.image"), W("quiet")>>>>
OldConf == <<<<W("old")>>>>

GRUBCONF == "EFI/BOOT/grub.cfg"
BOOTCONF == "EFI/BOOT/boot.conf"
BOOTX64CONF == "EFI/BOOT/bootx64.conf"
BOOTIA32CONF == "EFI/BOOT/bootia32.conf"
EfiEntryPoints == {GRUBCONF, BOOTX64CONF, BOOTIA32CONF}

\* f with path p holding `lines`
WriteFile(f, p, lines) ==
    [q \in DOMAIN f \cup {p} |-> IF q = p THEN lines ELSE f[q]]
RemovePaths(f, ps) == [q \in DOMAIN f \ ps |-> f[q]]

\* the destinations update_configs may find: which of the files exist
DestFiles ==
    {"isolinux/isolinux.cfg", "syslinux", "ldlinux.sys",
     GRUBCONF, BOOTCONF, BOOTX64CONF, BOOTIA32CONF}
InitialContent(p) ==
    IF p = "isolinux/isolinux.cfg" THEN IsolinuxCfg
    ELSE IF p = GRUBCONF THEN GrubCfg
    ELSE IF p \in {BOOTCONF, BOOTX64CONF, BOOTIA32CONF} THEN OldConf
    ELSE <<>>
\* a directory comes with the files in it
Closure(ps) ==
    ps \cup (IF "isolinux/isolinux.cfg" \in ps THEN {"isolinux"} ELSE {})
       \cup (IF "syslinux" \in ps THEN {"syslinux/ldlinux.sys"} ELSE {})
Destination(ps) == [p \in Closure(ps) |-> InitialContent(p)]

(***************************************************************************)
(* update_configs (creator.py:308-330).  copyOk[i] is how the i-th         *)
(* shutil.copyfile ends: "ok", or raising when it opens its files ("open": *)
(* the destination is untouched) or while it writes ("write": the          *)
(* destination is left truncated); one that raises is logged (329-330).    *)
(***************************************************************************)
\* lines 321-323
ApplyUpdates(f, label, fst, ovl, kargs) ==
    LET f1 == IF "isolinux/isolinux.cfg" \in DOMAIN f
              THEN WriteFile(f, "isolinux/syslinux.cfg",
                       update_config_lines(f["isolinux/isolinux.cfg"],
                                           label, fst, ovl, kargs))
              ELSE f
    IN IF GRUBCONF \in DOMAIN f1
       THEN WriteFile(f1, BOOTCONF,
                update_config_lines(f1[GRUBCONF], label, fst, ovl, kargs))
       ELSE f1

\* update_configs that copies boot.conf to every EFI entry point
CopyIfExists_Always(f, outfile, ok) ==
    IF BOOTCONF \notin DOMAIN f \/ ok = "open" THEN f
    ELSE WriteFile(f, outfile, IF ok = "ok" THEN f[BOOTCONF] ELSE <<>>)

\* lines 325-330 for one (bootconf, outfile) pair
CopyIfExists(f, outfile, ok) ==
    IF outfile \notin DOMAIN f THEN f
    ELSE IF BOOTCONF \notin DOMAIN f \/ ok = "open" THEN f
    ELSE WriteFile(f, outfile, IF ok = "ok" THEN f[BOOTCONF] ELSE <<>>)

update_configs(f, label, fst, ovl, kargs, copyOk) ==
    LET f0 == ApplyUpdates(f, label, fst, ovl, kargs)
        f1 == CopyIfExists(f0, GRUBCONF, copyOk[1])
        f2 == CopyIfExists(f1, BOOTX64CONF, copyOk[2])
    IN CopyIfExists(f2, BOOTIA32CONF, copyOk[3])

Labels == {"LIVE", "Fedora"}
KernelArgs == {<<>>, <<"a", "b">>}
CopyOutcomes == {<<"ok", "ok", "ok">>, <<"ok", "write", "ok">>, <<"open", "ok", "ok">>}

UpdateConfigs(label, kargs, copyOk) ==
    /\ runs < MaxRuns
    /\ runs' = runs + 1
    /\ IF dest = None
       THEN \* os.path.join(None, ...) at line 310
            /\ call' = [NoCall EXCEPT !.op = "update_configs",
                                      !.ret = "AttributeError",
                                      !.before = <<destfs>>]
            /\ UNCHANGED destfs
       ELSE /\ destfs' = update_configs(destfs, label, fstype, overlay, kargs,
                                        copyOk)
            /\ call' = [NoCall EXCEPT !.op = "update_configs", !.ret = "ok",
                                      !.args = <<copyOk>>,
                                      !.before = <<destfs>>]
    /\ UNCHANGED <<output, logfile, pids, proc, ppc, xpc, xst>>
    /\ UNCHANGED <<invVars, sizeVars, spaceVars, sumVars>>

(***************************************************************************)
(* install_bootloader: the sanity check of LiveUSBCreator (creator.py:     *)
(* 123-136) and then LinuxLiveUSBCreator.install_bootloader (863-901).     *)
(* A run is a record: the files, what was done to them and the tools run   *)
(* (effects), and the exception that ended it (ret, None while running).   *)
(***************************************************************************)
ExtractFirst == "LiveUSBError: extract_iso must be run before install_bootloader"

IsolinuxPaths == {"isolinux", "isolinux/isolinux.cfg", "isolinux/syslinux.cfg"}
SyslinuxPaths ==
    {"syslinux", "syslinux/isolinux.cfg", "syslinux/syslinux.cfg",
     "syslinux/extlinux.conf", "syslinux/ldlinux.sys", "syslinux/vesamenu.c32"}
\* shutil.move(dest/isolinux, dest/syslinux): where each path goes
Moved(p) ==
    IF p = "isolinux" THEN "syslinux"
    ELSE IF p = "isolinux/isolinux.cfg" THEN "syslinux/isolinux.cfg"
    ELSE IF p = "isolinux/syslinux.cfg" THEN "syslinux/syslinux.cfg"
    ELSE p

Did(run, effect) == [run EXCEPT !.effects = Append(@, effect)]
Raise(run, exc) == [run EXCEPT !.ret = exc]

\* install_bootloader without the check of lines 132-134
SanityCheck_Missing(run, curdest, xo) ==
    IF curdest = None THEN Raise(run, "AttributeError")
    ELSE IF ~xo THEN run
    ELSE IF "isolinux/syslinux.cfg" \notin DOMAIN run.fs
    THEN Raise(run, "IOError")
    ELSE Did([run EXCEPT !.fs = WriteFile(WriteFile(@, "boot", <<>>),
                                          "boot/olpc.fth", <<>>)],
             <<"write", "boot/olpc.fth">>)

\* LiveUSBCreator.install_bootloader (123-136) with setup_olpc (138-153)
SanityCheck(run, curdest, xo) ==
    IF curdest = None THEN Raise(run, "AttributeError")     \* os.path.join(None, ..)
    ELSE IF "isolinux" \notin DOMAIN run.fs THEN Raise(run, ExtractFirst)
    ELSE IF ~xo THEN run
    ELSE IF "isolinux/syslinux.cfg" \notin DOMAIN run.fs
    THEN Raise(run, "IOError")                              \* get_kernel_args, 158
    ELSE Did([run EXCEPT !.fs = WriteFile(WriteFile(@, "boot", <<>>),
                                          "boot/olpc.fth", <<>>)],
             <<"write", "boot/olpc.fth">>)

\* lines 867-877: the old syslinux directory goes, isolinux takes its name
\* and loses its isolinux.cfg
MoveIsolinux(run) ==
    IF run.ret # None THEN run
    ELSE LET r1 == IF "syslinux" \in DOMAIN run.fs
                   THEN Did([run EXCEPT !.fs = RemovePaths(@, SyslinuxPaths)],
                            <<"rmtree", "syslinux">>)
                   ELSE run
             r2 == IF "isolinux" \in DOMAIN r1.fs
                   THEN Did([r1 EXCEPT !.fs =
                               [q \in {Moved(x) : x \in DOMAIN r1.fs} |->
                                   IF q \in SyslinuxPaths
                                   THEN r1.fs[CHOOSE x \in DOMAIN r1.fs : Moved(x) = q]
                                   ELSE r1.fs[q]]],
                            <<"move", "isolinux">>)
                   ELSE Raise(r1, "IOError")
         IN IF r2.ret = None /\ "syslinux/isolinux.cfg" \in DOMAIN r2.fs
            THEN Did([r2 EXCEPT !.fs = RemovePaths(@, {"syslinux/isolinux.cfg"})],
                     <<"unlink", "syslinux/isolinux.cfg">>)
            ELSE r2

\* lines 880-890: the first com32 menu module the host has is copied
CopyCom32(run, com32) ==
    IF run.ret # None \/ ~com32 THEN run
    ELSE Did([run EXCEPT !.fs = WriteFile(@, "syslinux/vesamenu.c32", <<>>)],
             <<"copyfile", "syslinux/vesamenu.c32">>)

\* delete_ldlinux (creator.py:332-340) for one of its two paths
DeleteLdlinuxAt(run, path) ==
    IF run.ret # None \/ path \notin DOMAIN run.fs THEN run
    ELSE Did(Did([run EXCEPT !.fs = RemovePaths(@, {path})],
                 <<"popen", "chattr -i " \o path>>),
             <<"unlink", path>>)
delete_ldlinux(run) ==
    DeleteLdlinuxAt(DeleteLdlinuxAt(run, "syslinux/ldlinux.sys"), "ldlinux.sys")

\* lines 894-901: the tool for the filesystem of the selected drive; rc is
\* its exit code
RunBootTool(run, kind, fst, rc) ==
    IF run.ret # None THEN run
    ELSE IF kind # "ok"
    THEN Raise(run, IF kind = "none" THEN "TypeError" ELSE "KeyError")
    ELSE IF fst \in ext_fstypes
    THEN IF "syslinux/syslinux.cfg" \notin DOMAIN run.fs
         THEN Raise(run, "IOError")
         ELSE LET r1 == Did([run EXCEPT !.fs =
                                WriteFile(RemovePaths(@, {"syslinux/syslinux.cfg"}),
                                          "syslinux/extlinux.conf",
                                          run.fs["syslinux/syslinux.cfg"])],
                            <<"move", "syslinux/syslinux.cfg">>)
                  r2 == Did(r1, <<"popen", "extlinux">>)
              IN IF rc # 0 THEN Raise(r2, "LiveUSBError") ELSE r2
    ELSE LET r2 == Did(run, <<"popen", "syslinux">>)
         IN IF rc # 0 THEN Raise(r2, "LiveUSBError") ELSE r2

install_bootloader(f, curdest, kind, fst, xo, com32, rc) ==
    RunBootTool(
        delete_ldlinux(
            CopyCom32(
                MoveIsolinux(
                    SanityCheck([fs |-> f, effects |-> <<>>, ret |-> None],
                                curdest, xo)),
                com32)),
        kind, fst, rc)

InstallBootloader(xo, com32, rc) ==
    /\ runs < MaxRuns
    /\ runs' = runs + 1
    /\ LET run == install_bootloader(destfs, dest, DriveKind(drives, _drive),
                      IF DriveKind(drives, _drive) = "ok"
                      THEN drives[_drive].fstype ELSE None,
                      xo, com32, rc)
       IN /\ destfs' = run.fs
          /\ call' = [NoCall EXCEPT !.op = "install_bootloader",
                                    !.ret = IF run.ret = None THEN "ok" ELSE run.ret,
                                    !.effects = run.effects,
                                    !.before = <<destfs>>]
    /\ UNCHANGED <<output, logfile, pids, proc, ppc, xpc, xst>>
    /\ UNCHANGED <<invVars, sizeVars, spaceVars, sumVars>>

\* The destination after mount_device (or before it: dest None), holding
\* any of the files; sdb1 is selected.
InitBoot ==
    /\ \E f \in {"vfat", "ext4"} :
          /\ drives = [k \in {"sdb1"} |->
                          DriveRecord("sdb1",
                              [BaseDevice("sdb1") EXCEPT
                                   !.IdType = f, !.MountPoints = <<MountOf("sdb1")>>],
                              StatFree(MountOf("sdb1")))]
          /\ fstype = f
    /\ _drive = "sdb1" /\ uuid = "u1"
    /\ dest \in {None, MountOf("sdb1")}
    /\ valid_fstypes = class_valid_fstypes
    /\ force = None /\ callback = None /\ receivers = 0 /\ rpc = "idle"
    /\ last = Obs("init", "ok")
    /\ isosize = 2 * MiB /\ overlay \in {0, 1} /\ totalsize = 0
    /\ InitPopen
    /\ InitSpace
    /\ destfs \in {Destination(ps) : ps \in SUBSET DestFiles}
    /\ call = NoCall
    /\ InitSums

NextBoot ==
    \/ \E l \in Labels, k \in KernelArgs, c \in CopyOutcomes : UpdateConfigs(l, k, c)
    \/ \E xo \in BOOLEAN, com32 \in BOOLEAN, rc \in {0, 1} :
           InstallBootloader(xo, com32, rc)

SpecBoot == InitBoot /\ [][NextBoot]_vars

(***************************************************************************)
(* The checksum functions: verify_iso_sha1 with get_release_from_iso       *)
(* (creator.py:213-250, 389-396) and calculate_device_checksum of the two  *)
(* backends (creator.py:1084-1107, 1428-1451).                             *)
(*                                                                         *)
(* A path or a URL is the sequence of its components, "/tmp/a.iso" being   *)
(* <<"", "tmp", "a.iso">>; a hex digest is the sequence of its characters; *)
(* a dict with optional keys is a record whose DOMAIN holds the keys       *)
(* present.                                                                *)
(***************************************************************************)
\* os.path.basename
Basename(p) == IF p = <<>> THEN "" ELSE p[Len(p)]
\* os.getcwd()
Cwd == <<"", "home">>
\* os.path.abspath (creator.py:426)
Abspath(p) == IF p # <<>> /\ p[1] = "" THEN p ELSE Cwd \o p

\* what an image or a device holds
Contents == {"x", "y"}
\* hashlib's hexdigest(): lower-case hexadecimal digits
hexdigest(alg, data) ==
    IF alg = "sha1"
    THEN (IF data = "x" THEN <<"a", "1">> ELSE <<"b", "2">>)
    ELSE (IF data = "x" THEN <<"c", "3", "e">> ELSE <<"d", "4", "f">>)
\* the same digits with the letters in upper case, as a catalog may print them
UpperDigit(c) ==
    CASE c = "a" -> "A" [] c = "b" -> "B" [] c = "c" -> "C" [] c = "d" -> "D"
      [] c = "e" -> "E" [] c = "f" -> "F" [] OTHER -> c
Upper(h) == [i \in DOMAIN h |-> UpperDigit(h[i])]

\* get_release_from_iso with the test on the file name reversed
IsoMatches_Never(isop, release) == FALSE

\* creator.py:393-394: some variant of the release has a url whose base
\* name is the image's
IsoMatches(isop, release) ==
    \E arch \in DOMAIN release.variants :
        /\ "url" \in DOMAIN release.variants[arch]
        /\ Basename(release.variants[arch].url) = Basename(isop)

\* creator.py:389-396: <<the first release that matches>>, or <<>> for None
get_release_from_iso(isop, rels) ==
    LET hits == {i \in DOMAIN rels : IsoMatches(isop, rels[i])} IN
    IF hits = {} THEN <<>>
    ELSE <<rels[CHOOSE i \in hits : \A j \in hits : i <= j]>>

\* creator.py:223-230: the algorithm, or None when neither branch is taken
\* (`hash` and `checksum` stay unbound)
HashOf(release) ==
    IF "sha1" \in DOMAIN release THEN "sha1"
    ELSE IF "sha256" \in DOMAIN release THEN "sha256"
    ELSE None

\* the read loops: the progress calls of a run over `size` bytes
\* (creator.py:232-239, 1097-1104, 1441-1448), `unit` bytes per progress unit
\* the read loop reporting bytes whatever the unit
RECURSIVE ReadLoop_Bytes(_, _, _)
ReadLoop_Bytes(total, size, unit) ==
    LET n == IF size - total < MiB THEN size - total ELSE MiB
        t == total + n
    IN <<[fn |-> "update_progress", value |-> t]>>
           \o (IF n = 0 THEN <<>> ELSE ReadLoop_Bytes(t, size, unit))

RECURSIVE ReadLoop(_, _, _)
ReadLoop(total, size, unit) ==
    LET n == IF size - total < MiB THEN size - total ELSE MiB
        t == total + n
    IN <<[fn |-> "update_progress", value |-> t \div unit]>>
           \o (IF n = 0 THEN <<>> ELSE ReadLoop(t, size, unit))

\* creator.py:241: checksum.hexdigest() == release[hash]
DigestEqual(digest, expected) == digest = expected

\* creator.py:213-250.  `readable` is whether file(self.iso) opens.
verify_iso_sha1(isop, size, rels, data, readable) ==
    IF isop = <<>>
    THEN [NoCall EXCEPT !.ret = "AttributeError"]
    ELSE LET r == get_release_from_iso(isop, rels) IN
         IF r = <<>> THEN NoCall
         ELSE LET release == r[1]
                  alg     == HashOf(release)
                  max     == <<[fn |-> "set_max_progress", value |-> size \div 1024]>>
              IN IF ~readable
                 THEN [NoCall EXCEPT !.ret = "IOError", !.alg = alg, !.effects = max]
                 ELSE IF alg = None
                 THEN [NoCall EXCEPT !.ret = "UnboundLocalError", !.effects = max,
                                     !.read = isop]
                 ELSE [NoCall EXCEPT
                          !.ret = IF DigestEqual(hexdigest(alg, data), release[alg])
                                  THEN "True" ELSE "False",
                          !.alg = alg,
                          !.digest = hexdigest(alg, data),
                          !.read = isop,
                          !.effects = max \o ReadLoop(0, size, 1024)]

VerifyIsoSha1(data, readable) ==
    /\ call' = [verify_iso_sha1(iso, isosize, releases, data, readable)
                    EXCEPT !.op = "verify_iso_sha1", !.args = <<data, readable>>]
    /\ UNCHANGED <<destfs, invVars, sizeVars, popenVars, spaceVars, sumVars>>

\* set_iso (creator.py:424-427); `size` is <<st_size>>, or <<>> when os.stat fails
SetIso(path, size) ==
    /\ iso' = Abspath(path)
    /\ IF size = <<>>
       THEN /\ call' = [NoCall EXCEPT !.op = "set_iso", !.ret = "OSError",
                                      !.args = <<path>>]
            /\ UNCHANGED isosize
       ELSE /\ call' = [NoCall EXCEPT !.op = "set_iso", !.ret = "ok",
                                      !.args = <<path>>]
            /\ isosize' = size[1]
    /\ UNCHANGED <<destfs, invVars, overlay, totalsize, popenVars, spaceVars,
                   releases, hashopt, backend, image>>

\* calculate_device_checksum hashing with the algorithm of opts.hash
DeviceAlgorithm_Configured(opt) == opt

\* creator.py:1094, 1438: hashlib.sha1()
DeviceAlgorithm(opt) == "sha1"

\* creator.py:1095: unicode(self.drive['parent'])
LinuxDeviceName(d) == d.parent

\* creator.py:1439: r'\\.\%s' % self.drive['device']
WinRaw(device) == IF device = "D:" THEN "\\\\.\\D:" ELSE "\\\\.\\E:"

\* the record WindowsLiveUSBCreator.detect_removable_drives stores
\* (creator.py:1214-1223)
WindowsDrive(letter, size) ==
    [label |-> "LIVE", mount |-> letter, uuid |-> "u1", free |-> <<1>>,
     fstype |-> "vfat", device |-> letter, fsversion |-> "FAT32",
     size |-> size]

\* self.drive is None or raises: what lines 1086 and 1430/1437 do with it
NoDrive(kind, op) ==
    [NoCall EXCEPT !.op = op,
                   !.ret = IF kind = "none" THEN "TypeError" ELSE "KeyError"]

\* LinuxLiveUSBCreator.calculate_device_checksum (creator.py:1084-1107);
\* `size` bytes can be read from the device, `readable` is whether it opens
CalculateDeviceChecksum(data, size, readable) ==
    /\ backend = "linux"
    /\ LET kind == DriveKind(drives, _drive)
           op   == "calculate_device_checksum"
       IN call' =
            IF kind # "ok" THEN NoDrive(kind, op)
            ELSE LET d   == drives[_drive]
                     alg == DeviceAlgorithm(hashopt)
                 IN IF ~readable
                    THEN [NoCall EXCEPT !.op = op, !.ret = "IOError", !.alg = alg,
                                        !.read = <<LinuxDeviceName(d)>>]
                    ELSE [NoCall EXCEPT !.op = op, !.ret = "ok", !.alg = alg,
                                        !.args = <<data, size>>,
                                        !.digest = hexdigest(alg, data),
                                        !.read = <<LinuxDeviceName(d)>>,
                                        !.effects = ReadLoop(0, size, 1024)]
    /\ UNCHANGED <<destfs, invVars, sizeVars, popenVars, spaceVars, sumVars>>

\* WindowsLiveUSBCreator.calculate_device_checksum (creator.py:1428-1451)
CalculateDeviceChecksumWindows(data, size, readable) ==
    /\ backend = "windows"
    /\ LET kind == DriveKind(drives, _drive)
           op   == "calculate_device_checksum"
       IN call' =
            IF kind # "ok" THEN NoDrive(kind, op)
            ELSE LET d   == drives[_drive]
                     alg == DeviceAlgorithm(hashopt)
                     max == <<[fn |-> "set_max_progress", value |-> d.size]>>
                 IN IF ~readable
                    THEN [NoCall EXCEPT !.op = op, !.ret = "IOError", !.alg = alg,
                                        !.read = <<WinRaw(d.device)>>,
                                        !.effects = max]
                    ELSE [NoCall EXCEPT !.op = op, !.ret = "ok", !.alg = alg,
                                        !.args = <<data, size>>,
                                        !.digest = hexdigest(alg, data),
                                        !.read = <<WinRaw(d.device)>>,
                                        !.effects = max \o ReadLoop(0, size, 1)]
    /\ UNCHANGED <<destfs, invVars, sizeVars, popenVars, spaceVars, sumVars>>

\* ---- the inputs
\* a catalog entry: variants with or without a url, and the hashes it carries
\* (<<>> for a key that is absent)
Release(name, variants, s1, s256) ==
    IF s1 # <<>> /\ s256 # <<>>
    THEN [name |-> name, variants |-> variants, sha1 |-> s1[1], sha256 |-> s256[1]]
    ELSE IF s1 # <<>>
    THEN [name |-> name, variants |-> variants, sha1 |-> s1[1]]
    ELSE IF s256 # <<>>
    THEN [name |-> name, variants |-> variants, sha256 |-> s256[1]]
    ELSE [name |-> name, variants |-> variants]

UrlA == <<"http:", "", "dl", "a.iso">>
UrlB == <<"http:", "", "dl", "32", "b.iso">>
\* release A: a.iso for x86_64, an i686 variant without a url
VariantsA == [x86_64 |-> [url |-> UrlA, size |-> 2], i686 |-> [size |-> 2]]
\* release B: b.iso for i686, a.iso once more for x86_64
VariantsB == [x86_64 |-> [url |-> UrlA], i686 |-> [url |-> UrlB]]

\* the values a catalog holds for a digest: the digest of content "x" as
\* hashlib prints it, the same in upper case, and the digest of "y"
CatalogValues(alg) ==
    {<<>>, <<hexdigest(alg, "x")>>, <<Upper(hexdigest(alg, "x"))>>,
     <<hexdigest(alg, "y")>>}

ReleasesA == {Release("A", VariantsA, s1, s256) :
                 s1 \in CatalogValues("sha1"), s256 \in CatalogValues("sha256")}
ReleaseB  == Release("B", VariantsB, <<>>, <<hexdigest("sha256", "y")>>)
Catalogs  == {<<>>, <<ReleaseB>>} \cup {<<a>> : a \in ReleasesA}
                 \cup {<<ReleaseB, a>> : a \in ReleasesA}

IsoInputs == {<<"a.iso">>, <<"", "tmp", "b.iso">>, <<"", "tmp", "c.iso">>}
ImageSizes == {<<>>, <<0>>, <<MiB + 1>>}
DeviceSizes == {0, 2 * MiB}
HashOpts == {"sha1", "sha256"}

\* Either backend after its enumeration found one drive, selected or not;
\* no image is selected yet.
InitVerify ==
    /\ backend \in {"linux", "windows"}
    /\ drives = IF backend = "linux"
                THEN [k \in {"sdb1"} |->
                         DriveRecord("sdb1", BaseDevice("sdb1"),
                                     StatFree(MountOf("sdb1")))]
                ELSE [k \in {"D:"} |-> WindowsDrive("D:", 2 * MiB)]
    /\ _drive \in {None, IF backend = "linux" THEN "sdb1" ELSE "D:"}
    /\ uuid = None /\ fstype = None /\ dest = None
    /\ valid_fstypes = class_valid_fstypes
    /\ force = None /\ callback = None /\ receivers = 0 /\ rpc = "idle"
    /\ last = Obs("init", "ok")
    /\ isosize = 0 /\ overlay = 0 /\ totalsize = 0
    /\ InitPopen
    /\ InitSpace
    /\ InitFiles
    /\ iso = <<>>
    /\ releases \in Catalogs
    /\ hashopt \in HashOpts
    /\ image = <<>>

NextVerify ==
    \/ \E p \in IsoInputs, n \in ImageSizes : SetIso(p, n)
    \/ \E x \in Contents, r \in BOOLEAN : VerifyIsoSha1(x, r)
    \/ \E x \in Contents, n \in DeviceSizes, r \in BOOLEAN :
           CalculateDeviceChecksum(x, n, r)
    \/ \E x \in Contents, n \in DeviceSizes, r \in BOOLEAN :
           CalculateDeviceChecksumWindows(x, n, r)

SpecVerify == InitVerify /\ [][NextVerify]_vars

(***************************************************************************)
(* The hashing loop of verify_iso_sha1 (creator.py:231-240) on the bytes   *)
(* of the image.  A hash object absorbs the bytes it is fed one after the  *)
(* other; ChunkLen bytes stand for the 1024**2 of line 232.                *)
(***************************************************************************)
ChunkLen == 2
MaxBytes == 5
ByteValues == {0, 1, 2}

\* hashlib: a new hash object, update(data), and the digest it holds
HashNew == 0
HashByte(h, b) == (h * 5 + b + 1) % 257
RECURSIVE HashUpdate(_, _)
HashUpdate(h, data) ==
    IF data = <<>> THEN h ELSE HashUpdate(HashByte(h, Head(data)), Tail(data))

\* isofile.read(n) at offset pos
FileRead(bytes, pos, n) ==
    SubSeq(bytes, pos + 1, IF pos + n < Len(bytes) THEN pos + n ELSE Len(bytes))

\* the loop ending after its first read
RECURSIVE HashLoop_OneRead(_, _, _, _)
HashLoop_OneRead(h, bytes, pos, want) == HashUpdate(h, FileRead(bytes, pos, want))

\* lines 234-238: `while bytes: data = isofile.read(bytes);
\* checksum.update(data); bytes = len(data)`
RECURSIVE HashLoop(_, _, _, _)
HashLoop(h, bytes, pos, want) ==
    LET data == FileRead(bytes, pos, want)
        h2   == HashUpdate(h, data)
    IN IF Len(data) = 0 THEN h2
       ELSE HashLoop(h2, bytes, pos + Len(data), Len(data))

\* lines 231-240 on the image
HashIsoFile ==
    /\ call' = [NoCall EXCEPT !.op = "hash",
                              !.digest = <<HashLoop(HashNew, image, 0, ChunkLen)>>]
    /\ UNCHANGED <<destfs, invVars, sizeVars, popenVars, spaceVars, sumVars>>

RECURSIVE SeqsUpTo(_)
SeqsUpTo(n) ==
    IF n = 0 THEN {<<>>}
    ELSE SeqsUpTo(n - 1) \cup
         {Append(q, b) : q \in {x \in SeqsUpTo(n - 1) : Len(x) = n - 1},
                         b \in ByteValues}

\* set_iso has selected an image of any content
InitHash ==
    /\ InitInventory({<<4>>}, {None})
    /\ InitPopen
    /\ InitSpace
    /\ InitFiles
    /\ image \in SeqsUpTo(MaxBytes)
    /\ isosize = Len(image) /\ overlay = 0 /\ totalsize = 0
    /\ iso = <<"", "tmp", "a.iso">>
    /\ releases = <<>>
    /\ hashopt = "sha1"
    /\ backend = "linux"

NextHash == HashIsoFile

SpecHash == InitHash /\ [][NextHash]_vars

(***************************************************************************)
(* _update_configs (creator.py:277-306) on files of one line: any line of  *)
(* up to MaxTokens tokens, rewritten to a second file and that one to a    *)
(* third.                                                                  *)
(***************************************************************************)
MaxTokens == 3
ConfigTokens ==
    {<<"LABEL", "root=live:", "Fedora">>, <<"rootfstype", "auto">>,
     W("ro"), W("liveimg"), W("rd.live.image"), W("quiet")}
RECURSIVE LinesUpTo(_)
LinesUpTo(n) ==
    IF n = 0 THEN {<<>>}
    ELSE LinesUpTo(n - 1) \cup
         {Append(l, t) : l \in {x \in LinesUpTo(n - 1) : Len(x) = n - 1},
                         t \in ConfigTokens}
ConfigLines == LinesUpTo(MaxTokens) \ {<<>>}
ConfigLabels == {"LIVE", "MY LIVE", "A:B"}
\* (infile, outfile) of the calls
ConfigPairs == {<<"in.cfg", "out1.cfg">>, <<"out1.cfg", "out2.cfg">>}

\* _update_configs(infile, outfile) with self.label and opts.kernel_args
UpdateConfigFile(infile, outfile, label, kargs) ==
    /\ runs < MaxRuns
    /\ runs' = runs + 1
    /\ IF infile \notin DOMAIN destfs
       THEN \* file(infile, 'r') at line 278
            /\ call' = [NoCall EXCEPT !.op = "_update_configs", !.ret = "IOError",
                                      !.args = <<infile, outfile, label, kargs>>,
                                      !.before = <<destfs>>]
            /\ UNCHANGED destfs
       ELSE /\ destfs' = WriteFile(destfs, outfile,
                            update_config_lines(destfs[infile], label, fstype,
                                                overlay, kargs))
            /\ call' = [NoCall EXCEPT !.op = "_update_configs", !.ret = "ok",
                                      !.args = <<infile, outfile, label, kargs>>,
                                      !.before = <<destfs>>]
    /\ UNCHANGED <<output, logfile, pids, proc, ppc, xpc, xst>>
    /\ UNCHANGED <<invVars, sizeVars, spaceVars, sumVars>>

InitConfig ==
    /\ drives = [k \in {"sdb1"} |->
                    DriveRecord("sdb1",
                        [BaseDevice("sdb1") EXCEPT
                             !.MountPoints = <<MountOf("sdb1")>>],
                        StatFree(MountOf("sdb1")))]
    /\ fstype \in {"vfat", "ext4"}
    /\ _drive = "sdb1" /\ uuid = "u1"
    /\ dest = MountOf("sdb1")
    /\ valid_fstypes = class_valid_fstypes
    /\ force = None /\ callback = None /\ receivers = 0 /\ rpc = "idle"
    /\ last = Obs("init", "ok")
    /\ isosize = 2 * MiB /\ overlay \in {0, 1} /\ totalsize = 0
    /\ InitPopen
    /\ InitSpace
    /\ destfs \in {[p \in {"in.cfg"} |-> <<l>>] : l \in ConfigLines}
    /\ call = NoCall
    /\ InitSums

NextConfig ==
    \E io \in ConfigPairs, l \in ConfigLabels, k \in KernelArgs :
        UpdateConfigFile(io[1], io[2], l, k)

SpecConfig == InitConfig /\ [][NextConfig]_vars

(***************************************************************************)
(* Three steps of the pipeline on the selected drive, each run to its end: *)
(* LinuxLiveUSBCreator.verify_filesystem (creator.py:792-816),             *)
(* create_persistent_overlay (265-275) and bootable_partition with         *)
(* get_disk_partition (973-1007).  A run is a record of what was done      *)
(* (effects) and of the exception that ended it (ret, None while running). *)
(* popen is the supervisor of lines 179-211 run to its end: the command,   *)
(* then write_log and a LiveUSBError when the exit code rc is not 0.       *)
(***************************************************************************)
NewRun == [effects |-> <<>>, ret |-> None]
PopenRun(run, cmd, rc) ==
    LET r1 == Did(run, <<"popen", cmd>>) IN
    IF rc = 0 THEN r1
    ELSE Raise(Did(r1, <<"write_log", LogFileName>>), "LiveUSBError")
\* `except LiveUSBError`: the run goes on
Caught(run) == [run EXCEPT !.ret = None]

\* the record handleAdded stores (creator.py:631-675), 'label' included
DriveData(name, device, bytes, idlabel, parent) ==
    LET r == DriveRecord(name, device, bytes) IN
    [device |-> r.device, fstype |-> r.fstype, uuid |-> r.uuid,
     mount |-> r.mount, free |-> r.free, parent |-> parent, label |-> idlabel]

\* verify_filesystem that lets the failure of the label command through
RelabelOutcome_Propagates(run, fst) == run

\* lines 806-816: what becomes of a label command that raised
RelabelOutcome(run, fst) ==
    IF run.ret = None THEN run
    ELSE IF fst \in {"vfat", "msdos"} THEN Caught(run)              \* 809-811
    ELSE Did(Caught(run), <<"log.error", "Unable to change volume label">>)

\* creator.py:792-816
verify_filesystem(fst, valid, kind, d, label, rc) ==
    IF fst \notin valid
    THEN Raise(NewRun, IF fst = None THEN "LiveUSBError: Unknown filesystem"
                       ELSE "LiveUSBError: Unsupported filesystem")
    ELSE IF kind # "ok"
    THEN Raise(NewRun, IF kind = "none" THEN "TypeError" ELSE "KeyError")
    ELSE IF d.label = label THEN NewRun
    ELSE RelabelOutcome(
             PopenRun(NewRun,
                      [tool |-> IF fst \in {"vfat", "msdos"}
                                THEN "/sbin/dosfslabel" ELSE "/sbin/e2label",
                       device |-> d.device, label |-> label],
                      rc),
             fst)

\* the label the volume carries after the run: the label command, when one
\* ran and did its work, has changed it
VolumeLabel(d, label, run, done) ==
    IF done /\ \E i \in DOMAIN run.effects : run.effects[i][1] = "popen"
    THEN label ELSE d.label

\* `done` is whether a label command that ran has written the label: one
\* that exits 0 has, and dosfslabel may have although it exits nonzero (the
\* comment of line 810)
VerifyFilesystem(label, rc, done) ==
    /\ rc = 0 => done
    /\ (rc # 0 /\ done) => fstype \in {"vfat", "msdos"}
    /\ LET kind == DriveKind(drives, _drive)
           run  == verify_filesystem(fstype, valid_fstypes, kind,
                       IF kind = "ok" THEN drives[_drive] ELSE <<>>, label, rc)
       IN call' = [NoCall EXCEPT !.op = "verify_filesystem",
                                 !.ret = IF run.ret = None THEN "ok" ELSE run.ret,
                                 !.args = <<label, rc>>,
                                 !.effects = run.effects,
                                 !.read = IF kind = "ok"
                                          THEN <<VolumeLabel(drives[_drive], label,
                                                             run, done)>>
                                          ELSE <<>>]
    /\ UNCHANGED <<destfs, invVars, sizeVars, popenVars, spaceVars, sumVars>>

\* get_overlay (creator.py:385-387): stands for the path
\* <dest>/LiveOS/overlay-<label>-<uuid>
OverlayName == "LiveOS/overlay"

\* line 269: `if self.fstype == 'vfat'`
ZeroFill(fst) == fst = "vfat"

\* lines 271-275: the dd command, in blocks of 1M
OverlayCommand(fst, ovl) ==
    IF ZeroFill(fst)
    THEN [tool |-> "dd", of |-> OverlayName, count |-> ovl, seek |-> 0]
    ELSE [tool |-> "dd", of |-> OverlayName, count |-> 1, seek |-> ovl]

\* the file `dd if=/dev/zero of=F bs=1M count=c seek=s` leaves: s blocks
\* skipped, then c blocks written; a FAT filesystem stores the skipped
\* blocks too, the others leave them as a hole
DdFile(cmd, fst) ==
    [path |-> cmd.of,
     size |-> (cmd.seek + cmd.count) * MiB,
     used |-> IF fst \in {"vfat", "msdos"} THEN (cmd.seek + cmd.count) * MiB
              ELSE cmd.count * MiB]

\* creator.py:265-275.  `exists` is os.path.exists(self.dest)
create_persistent_overlay(ovl, fst, curdest, exists, rc) ==
    IF ovl = 0 THEN NewRun
    ELSE IF curdest = None THEN Raise(NewRun, "TypeError")
    ELSE IF ~exists THEN Raise(NewRun, "LiveUSBError: Cannot find path")
    ELSE LET run == PopenRun(NewRun, OverlayCommand(fst, ovl), rc) IN
         IF run.ret # None THEN run
         ELSE Did(run, <<"file", DdFile(OverlayCommand(fst, ovl), fst)>>)

CreatePersistentOverlay(exists, rc) ==
    /\ LET run == create_persistent_overlay(overlay, fstype, dest, exists, rc)
       IN call' = [NoCall EXCEPT !.op = "create_persistent_overlay",
                                 !.ret = IF run.ret = None THEN "ok" ELSE run.ret,
                                 !.args = <<exists, rc>>,
                                 !.effects = run.effects]
    /\ UNCHANGED <<destfs, invVars, sizeVars, popenVars, spaceVars, sumVars>>

\* "/dev/%s" % part.getDeviceNodeName() (line 1005)
DevNode(node) == IF node = "sdb1" THEN "/dev/sdb1" ELSE "/dev/sdb2"

\* get_disk_partition taking the first partition of the disk
FindPartition_First(d, table) == IF table = <<>> THEN 0 ELSE 1

\* lines 1004-1007: the index of the first partition of the table whose
\* device node is the drive's device, 0 when there is none
FindPartition(d, table) ==
    LET hits == {i \in DOMAIN table : d.device = DevNode(table[i].node)} IN
    IF hits = {} THEN 0 ELSE CHOOSE i \in hits : \A j \in hits : i <= j

\* creator.py:973-996 on the partition table of the parent disk; devok is
\* whether parted opens the disk, commitok whether disk.commit() succeeds.
\* `table` of the result is what the disk holds afterwards.
bootable_partition(kind, d, table, devok, commitok) ==
    LET run == [NewRun EXCEPT !.effects = <<>>] IN
    IF kind # "ok"
    THEN [run |-> Raise(run, IF kind = "none" THEN "AttributeError" ELSE "KeyError"),
          table |-> table]
    ELSE IF d.parent = None THEN [run |-> run, table |-> table]     \* 975-978
    ELSE IF ~devok
    THEN [run |-> Raise(Did(run, <<"parted.Device", d.parent>>), "parted error"),
          table |-> table]
    ELSE LET r1 == Did(run, <<"parted.Device", d.parent>>)
             i  == FindPartition(d, table)
         IN IF i = 0
            THEN [run |-> Did(r1, <<"log.exception", "Unable to get disk partitions">>),
                  table |-> table]
            ELSE IF ~table[i].avail
            THEN [run |-> Did(r1, <<"log.warning", "no boot flag">>), table |-> table]
            ELSE IF table[i].boot
            THEN [run |-> r1, table |-> table]
            ELSE LET r2 == Did(Did(r1, <<"setFlag", table[i].node>>),
                               <<"commit", d.parent>>)
                 IN IF commitok
                    THEN [run |-> r2, table |-> [table EXCEPT ![i].boot = TRUE]]
                    ELSE [run |-> Did(r2, <<"log.exception", "commit">>),
                          table |-> table]

BootablePartition(table, devok, commitok) ==
    /\ LET kind == DriveKind(drives, _drive)
           out  == bootable_partition(kind,
                       IF kind = "ok" THEN drives[_drive] ELSE <<>>,
                       table, devok, commitok)
       IN call' = [NoCall EXCEPT !.op = "bootable_partition",
                                 !.ret = IF out.run.ret = None THEN "ok"
                                         ELSE out.run.ret,
                                 !.args = <<devok, commitok>>,
                                 !.effects = out.run.effects,
                                 !.before = <<table>>,
                                 !.read = <<out.table>>]
    /\ UNCHANGED <<destfs, invVars, sizeVars, popenVars, spaceVars, sumVars>>

\* ---- the inputs
PrepareTypes == {None, "vfat", "msdos", "ext2", "ext4", "ntfs"}
IdLabels == {"LIVE", "OLD"}
Partitions ==
    {[node |-> n, boot |-> b, avail |-> a] :
        n \in {"sdb1", "sdb2"}, b \in BOOLEAN, a \in BOOLEAN}
\* the partition tables of the parent disk: up to two partitions
Tables ==
    {<<>>} \cup {<<x>> : x \in Partitions}
           \cup {t \in {<<x, y>> : x \in Partitions, y \in Partitions} :
                     t[1].node # t[2].node}

\* A drive was found and selected (or the selection was lost), and
\* mount_device has or has not recorded a destination.
InitPrepare ==
    /\ \E f \in PrepareTypes, l \in IdLabels :
          /\ drives = [k \in {"sdb1"} |->
                          DriveData("sdb1",
                              [BaseDevice("sdb1") EXCEPT
                                   !.IdType = f, !.MountPoints = <<MountOf("sdb1")>>],
                              StatFree(MountOf("sdb1")), l, Parent("sdb1"))]
          /\ fstype = f
    /\ _drive \in {None, "sdb1"}
    /\ uuid = "u1"
    /\ dest \in {None, MountOf("sdb1")}
    /\ valid_fstypes \in {InitValidFstypes(v) : v \in {<<>>, <<4>>}}
    /\ force = None /\ callback = None /\ receivers = 0 /\ rpc = "idle"
    /\ last = Obs("init", "ok")
    /\ isosize = 2 * MiB /\ overlay \in {0, 2} /\ totalsize = 0
    /\ InitPopen
    /\ InitSpace
    /\ InitFiles
    /\ InitSums

NextPrepare ==
    \/ \E rc \in {0, 1}, done \in BOOLEAN : VerifyFilesystem("LIVE", rc, done)
    \/ \E e \in BOOLEAN, rc \in {0, 1} : CreatePersistentOverlay(e, rc)
    \/ \E t \in Tables, o \in BOOLEAN, c \in BOOLEAN : BootablePartition(t, o, c)

SpecPrepare == InitPrepare /\ [][NextPrepare]_vars

(***************************************************************************)
(* delete_liveos (creator.py:342-362) with delete_ldlinux (332-340) on a   *)
(* destination tree.  A path is the sequence of its components below the   *)
(* destination; `tree` is the set of existing paths, `ro` the read-only    *)
(* ones among them.  Removing a read-only file fails where the platform    *)
(* refuses it (the comment of line 352: Python for Windows).               *)
(***************************************************************************)
LdlinuxPaths == <<(<<"syslinux", "ldlinux.sys">>), (<<"ldlinux.sys">>)>>
PayloadPaths == <<(<<"LiveOS">>), (<<"syslinux">>), (<<"isolinux">>)>>
\* what a destination may hold, in the order os.listdir lists it
TreePaths ==
    <<(<<"ldlinux.sys">>), (<<"syslinux">>), (<<"syslinux", "ldlinux.sys">>),
      (<<"LiveOS">>), (<<"LiveOS", "squashfs.img">>), (<<"LiveOS", "sub">>),
      (<<"LiveOS", "sub", "f">>), (<<"isolinux">>), (<<"isolinux", "isolinux.cfg">>)>>
DirPaths == {<<"syslinux">>, <<"LiveOS">>, <<"LiveOS", "sub">>, <<"isolinux">>}

Under(q, path) == Len(q) > Len(path) /\ SubSeq(q, 1, Len(path)) = path
\* os.listdir(path) joined to path
Listing(tree, path) ==
    SelectSeq(TreePaths, LAMBDA q : q \in tree /\ Under(q, path)
                                    /\ Len(q) = Len(path) + 1)

\* lines 353-358: the paths os.chmod(.., 0777) is called on
ChmodTargets(tree, path) ==
    IF path \in DirPaths THEN Listing(tree, path) ELSE <<>>

RECURSIVE DidAll(_, _, _)
DidAll(run, tag, paths) ==
    IF paths = <<>> THEN run
    ELSE DidAll(Did(run, <<tag, Head(paths)>>), tag, Tail(paths))

\* lines 332-340 for one path
UnlinkLdlinux(run, path) ==
    IF run.ret # None \/ path \notin run.tree THEN run
    ELSE Did(Did([run EXCEPT !.tree = @ \ {path}], <<"chattr -i", path>>),
             <<"unlink", path>>)

\* lines 349-362 for one path
RemovePayload(run, path, refuses) ==
    IF run.ret # None \/ path \notin run.tree THEN run
    ELSE LET targets == ChmodTargets(run.tree, path)
             r1 == [DidAll(run, "chmod", targets) EXCEPT
                       !.ro = @ \ {targets[i] : i \in DOMAIN targets}]
             r2 == Did(r1, <<"rmtree", path>>)
         IN IF refuses /\ \E q \in r1.ro : q = path \/ Under(q, path)
            THEN Raise(r2, "LiveUSBError: Unable to remove previous LiveOS")
            ELSE [r2 EXCEPT !.tree = {q \in @ : q # path /\ ~Under(q, path)}]

\* creator.py:342-362.  `exists` is os.path.exists(self.dest)
delete_liveos(tree, ro, curdest, exists, refuses) ==
    LET run == [effects |-> <<>>, ret |-> None, tree |-> tree, ro |-> ro] IN
    IF curdest = None THEN Raise(run, "AttributeError")
    ELSE IF ~exists THEN Raise(run, "LiveUSBError: Cannot find path")
    ELSE LET r1 == UnlinkLdlinux(UnlinkLdlinux(run, LdlinuxPaths[1]), LdlinuxPaths[2])
         IN RemovePayload(RemovePayload(RemovePayload(r1, PayloadPaths[1], refuses),
                                        PayloadPaths[2], refuses),
                          PayloadPaths[3], refuses)

DeleteLiveos(tree, ro, exists, refuses) ==
    /\ LET run == delete_liveos(tree, ro, dest, exists, refuses)
       IN call' = [NoCall EXCEPT !.op = "delete_liveos",
                                 !.ret = IF run.ret = None THEN "ok" ELSE run.ret,
                                 !.args = <<exists, refuses>>,
                                 !.effects = run.effects,
                                 !.before = <<tree, ro>>,
                                 !.read = <<run.tree>>]
    /\ UNCHANGED <<destfs, invVars, sizeVars, popenVars, spaceVars, sumVars>>

\* the trees: every set of paths that holds the directories of its members
Trees ==
    {t \in SUBSET Range(TreePaths) :
        \A q \in t : Len(q) > 1 => SubSeq(q, 1, Len(q) - 1) \in t}
\* the files that may be read-only
ReadOnlyFiles ==
    {<<"LiveOS", "squashfs.img">>, <<"LiveOS", "sub", "f">>,
     <<"isolinux", "isolinux.cfg">>}

InitDelete ==
    /\ InitInventory({<<4>>}, {None})
    /\ isosize = 2 * MiB /\ overlay = 0 /\ totalsize = 0
    /\ InitPopen
    /\ InitSpace
    /\ InitFiles
    /\ iso = <<>> /\ releases = <<>> /\ hashopt = "sha1" /\ image = <<>>
    /\ backend \in {"linux", "windows"}

SetDest(path) ==
    /\ dest' = path
    /\ UNCHANGED <<drives, _drive, uuid, fstype, valid_fstypes, force, callback,
                   receivers, rpc, last>>
    /\ UNCHANGED <<sizeVars, popenVars, spaceVars, fileVars, sumVars>>

NextDelete ==
    \/ \E t \in Trees, e \in BOOLEAN :
          \E r \in SUBSET (ReadOnlyFiles \cap t) :
              DeleteLiveos(t, r, e, backend = "windows")
    \/ \E path \in {None, MountOf("sdb1")} : SetDest(path)

SpecDelete == InitDelete /\ [][NextDelete]_vars

(***************************************************************************)
(* The Windows inventory: WindowsLiveUSBCreator.detect_removable_drives    *)
(* (creator.py:1201-1228) with _get_device_uuid (1328-1343), and the       *)
(* _set_drive of the base class.  `present` are the drive letters that are *)
(* removable drives with readable volume information, `wmi` is whether the *)
(* WMI query of the serial number answers.                                 *)
(***************************************************************************)
WinLetters == {"D:", "E:"}
\* Win32_LogicalDisk.VolumeSerialNumber of the drive behind a letter
VolumeSerialNumber(letter) == IF letter = "D:" THEN "1234ABCD" ELSE "5678EF01"
\* lines 1335-1338: uuid[:4] + '-' + uuid[4:], None for no serial
SerialUuid(serial) ==
    IF serial \in {None, ""} THEN None
    ELSE IF serial = "1234ABCD" THEN "1234-ABCD"
    ELSE "5678-EF01"

\* creator.py:1328-1343; cur is self.uuid
GetDeviceUuid(letter, cur, wmi) ==
    IF cur # None /\ cur # "" THEN cur                      \* 1330-1331
    ELSE IF ~wmi THEN None                                  \* 1340-1342
    ELSE SerialUuid(VolumeSerialNumber(letter))

DetectRemovableDrivesWindows(cbk, present, wmi) ==
    /\ backend = "windows"
    /\ rpc = "idle"
    /\ callback' = cbk
    /\ drives' = [l \in present |->
                     [WindowsDrive(l, 2 * MiB) EXCEPT
                         !.uuid = GetDeviceUuid(l, uuid, wmi)]]
    /\ last' = [Obs("detect_removable_drives", "ok")
                  EXCEPT !.cb = IF cbk # None THEN 1 ELSE 0, !.passed = wmi]
    /\ UNCHANGED <<_drive, uuid, fstype, dest, valid_fstypes, force, receivers, rpc>>
    /\ UNCHANGED <<sizeVars, popenVars, spaceVars, fileVars, sumVars>>

\* WindowsLiveUSBCreator.mount_device (creator.py:1392-1393)
MountDeviceWindows ==
    /\ backend = "windows"
    /\ rpc = "idle"
    /\ LET kind == DriveKind(drives, _drive) IN
       IF kind # "ok"
       THEN /\ last' = Obs("mount_device",
                           IF kind = "none" THEN "TypeError" ELSE "KeyError")
            /\ UNCHANGED dest
       ELSE /\ dest' = drives[_drive].mount
            /\ last' = [Obs("mount_device", "ok") EXCEPT !.pre = "mounted"]
    /\ UNCHANGED <<drives, _drive, uuid, fstype, valid_fstypes, force, callback,
                   receivers, rpc>>
    /\ UNCHANGED <<sizeVars, popenVars, spaceVars, fileVars, sumVars>>

InitWindows ==
    /\ InitInventory({<<>>}, {None})
    /\ isosize = 2 * MiB /\ overlay \in {0, 1} /\ totalsize = 0
    /\ InitPopen
    /\ InitSpace
    /\ InitFiles
    /\ iso = <<>> /\ releases = <<>> /\ hashopt = "sha1" /\ image = <<>>
    /\ backend = "windows"

NextWindows ==
    \/ \E cbk \in {None, "cb"}, present \in SUBSET WinLetters, wmi \in BOOLEAN :
          DetectRemovableDrivesWindows(cbk, present, wmi)
    \/ \E d \in {None, "Z:"} \cup WinLetters : SetDrive(d)
    \/ MountDeviceWindows

SpecWindows == InitWindows /\ [][NextWindows]_vars

(***************************************************************************)
(* The claims                                                              *)
(***************************************************************************)
Logged(kind, id) ==
    \E i \in DOMAIN output : output[i][1] = kind /\ output[i][2] = id

\* the umount of the staging directory was logged, spawned and tracked
\* after the loop mount
UmountAttempted ==
    \E i \in DOMAIN output :
        /\ output[i][1] = "cmd" /\ output[i][3] = "umount"
        /\ output[i][2] > xst.mountId
        /\ output[i][2] \in Range(pids)

ExtractOver == xst.op = "extract_iso" /\ xst.result # None

\* C1: once the loop mount of extract_iso has succeeded, the umount of the
\* staging directory is attempted (exactly once) on every exit path: normal
\* completion, no LiveOS on the image, a failed copy command.
C1_UmountOnEveryExit ==
    (ExtractOver /\ xst.mounted) => (xst.umounts = 1 /\ UmountAttempted)

\* a copy command failed after the squashfs copy, and the umount was run
C1_Witness ==
    /\ ExtractOver /\ xst.mounted /\ xst.result = "raised"
    /\ xst.error = "cp_isolinux" /\ "cp_squashfs" \in xst.copied
    /\ UmountAttempted

\* C3: popen raises if and only if the exit code is nonzero and passive is
\* false, returns normally otherwise; the output log is appended to the log
\* file at every nonzero exit, passive or not, and the log file changes at
\* no other moment.
C3_PopenPolicy ==
    [][ /\ (ppc = "written" /\ ppc' # "written") =>
             /\ ppc' = "raised" <=> (proc.rc # 0 /\ ~proc.passive)
             /\ ppc' = "returned" <=> (proc.rc = 0 \/ proc.passive)
             /\ proc.rc # 0 => logfile' = logfile \o output
             /\ proc.rc = 0 => logfile' = logfile
        /\ ppc # "written" => logfile' = logfile ]_vars

\* a passive command failed: popen returned and the log file was written
C3_Witness ==
    /\ ppc = "returned" /\ proc.passive /\ proc.rc # 0
    /\ Len(logfile) >= 2

\* C4: the command line is in the output log before the process is
\* spawned, and the captured output is in it (after the command line) before
\* the exit code is inspected: when popen raises or swallows a failure, the
\* output log, and the log file written from it, hold the command and its
\* output.
C4_LoggedBeforeInspect ==
    /\ ppc \in {"spawned", "tracked", "exited", "written", "returned", "raised"}
          => Logged("cmd", proc.id)
    /\ ppc \in {"written", "returned", "raised"} =>
          \E i, j \in DOMAIN output :
              /\ i < j
              /\ output[i] = <<"cmd", proc.id, proc.cmd>>
              /\ output[j] = <<"out", proc.id, proc.cmd>>
    /\ (PopenOver /\ proc.rc # 0) =>
          /\ Len(logfile) >= 2
          /\ logfile[Len(logfile)] = <<"out", proc.id, proc.cmd>>

\* popen has raised with the command and its output in the log
C4_Witness ==
    /\ ppc = "raised" /\ proc.cmd = "mkfs.vfat"
    /\ Logged("cmd", proc.id) /\ Logged("out", proc.id)

\* C5: check_free_space raises if and only if
\* isosize + overlay * 1024^2 > free bytes; exactly equal passes.
C5_FreeSpaceBoundary ==
    cfs # "none" =>
        /\ cfs = "LiveUSBError" <=> isosize + overlay * 1048576 > freebytes
        /\ totalsize = isosize + overlay * 1048576

\* image plus a nonzero overlay fill the free space exactly, and it passes
C5_Witness ==
    /\ cfs = "ok" /\ overlay > 0 /\ isosize > 0
    /\ isosize + overlay * 1048576 = freebytes

Selected == _drive # None /\ _drive \in DOMAIN drives

\* C2: mount_device on a selected drive that is not mounted never returns
\* normally unless the destination is set to a mount path that was verified
\* to exist: a failed mount request or a missing path is an error.
C2_MountNeverSilent ==
    (last.op = "mount_device" /\ last.pre = "unmounted" /\ last.ret = "ok")
        => (dest # None /\ last.path = dest /\ last.passed)

\* C6: get_free_bytes without an argument, and so check_free_space, reads
\* the free space of the selected drive: the path it reads is the mount
\* point of the selected drive, never that of another drive.
C6_FreeBytesOfSelectedDrive ==
    (/\ Selected
     /\ \/ (last.op = "get_free_bytes" /\ last.name = None)
        \/ last.op = "check_free_space"
     /\ last.path # None)
        => last.path = MountOf(_drive)

\* C7: a drive that is not mounted is not reported as zero free bytes:
\* get_free_bytes returns 0 only for a filesystem it has read, and
\* check_free_space reports "not enough free space" only for a drive that
\* has a mount destination.
C7_ZeroIsARead ==
    Selected =>
        /\ (last.op = "get_free_bytes" /\ last.ret = "ok" /\ last.val = <<0>>)
              => last.path # None
        /\ (last.op = "check_free_space" /\ last.pre = "compare"
                /\ last.ret = "LiveUSBError")
              => dest # None

\* C8: with a drive selected, the pipeline's filesystem type, UUID and
\* destination are those of the inventory record of the selected key.
C8_ViewIsInventory ==
    Selected =>
        /\ fstype = drives[_drive].fstype
        /\ uuid = drives[_drive].uuid
        /\ dest = drives[_drive].mount

\* the inventory changed under this event
Mutation(ev) ==
    \/ ev.op = "handleRemoved"
    \/ (ev.op = "handleAdded" /\ ev.passed /\ ev.ret = "ok")

OthersUnchanged(name) ==
    /\ DOMAIN drives' \ {name} = DOMAIN drives \ {name}
    /\ \A k \in DOMAIN drives \ {name} : drives'[k] = drives[k]

\* C9: an appeared event that passes the enumeration policy leaves the
\* event's record under the event's key and invokes the callback; one that
\* fails the policy changes neither the inventory nor invokes the callback;
\* a removed event leaves the key absent and invokes the callback; no other
\* key changes.
C9_HotplugContract ==
    [][ /\ (last'.op = "handleAdded" /\ last'.passed) =>
             /\ last'.name \in DOMAIN drives'
             /\ drives'[last'.name] = last'.rec[1]
             /\ callback # None => last'.cb >= 1
             /\ OthersUnchanged(last'.name)
        /\ (last'.op = "handleAdded" /\ ~last'.passed) =>
             /\ drives' = drives
             /\ last'.cb = 0
        /\ last'.op = "handleRemoved" =>
             /\ last'.name \notin DOMAIN drives'
             /\ callback # None => last'.cb >= 1
             /\ OthersUnchanged(last'.name) ]_vars

\* C10: no hotplug insert or remove happens between the two steps of a
\* pipeline read of self.drive.
C10_ReadsExcludeHotplug ==
    ~(rpc = "checked" /\ Mutation(last))

\* the event's drive is one the claim's filters are about
BootMounted(d) == "/boot" \in Range(d.MountPoints)
IsPartition(d) == d.ifaces /\ d.Drive # "/"
OnUsb(d) == d.ConnectionBus = "usb" \/ d.ConnectionBus = "sdio"
EventStored(name, d) ==
    /\ name \in DOMAIN drives'
    /\ drives'[name].device = d.Device
    /\ drives'[name].fstype = d.IdType

OnlyObject(objs, i) == \A j \in DOMAIN objs : objs[j][1] = objs[i][1] => j = i

C12_BootNeverInserted ==
    [][ /\ (last'.op = "handleAdded" /\ BootMounted(last'.dev[1]))
            => drives' = drives
        /\ last'.op = "detect_removable_drives" =>
             \A i \in DOMAIN last'.objs :
                 BootMounted(last'.objs[i][2]) =>
                    \/ last'.objs[i][1] \notin DOMAIN drives'
                    \/ \E j \in DOMAIN last'.objs :
                          /\ j # i
                          /\ last'.objs[j][1] = last'.objs[i][1]
                          /\ ~BootMounted(last'.objs[j][2])
                          /\ drives'[last'.objs[i][1]].mount
                               = FirstMount(last'.objs[j][2]) ]_vars

\* the forced device itself appeared mounted at /boot while the
\* inventory already held its key
C12_Witness ==
    /\ last.op = "handleAdded"
    /\ BootMounted(last.dev[1])
    /\ force = last.dev[1].Device
    /\ last.name \in DOMAIN drives

\* a process has been spawned by the popen in progress and has not been
\* waited for yet
ProcessRunning == ppc \in {"spawned", "tracked"}

\* terminate() has just returned: normally, after one os.kill for every
\* tracked pid, in order, whatever each os.kill did
TerminateSignalsAll ==
    (last'.op = "terminate" /\ last' # last) =>
        /\ last'.ret = "ok"
        /\ Len(last'.sig) = Len(pids)
        /\ \A i \in DOMAIN pids : last'.sig[i][1] = pids[i]

\* C13: every process spawned by popen has its pid in the tracked list from
\* the moment it is spawned, and terminate() signals every tracked pid, a
\* failed signal not stopping the others, and never raises.
C13_TrackedFromSpawn ==
    [][ /\ ProcessRunning' => proc'.id \in Range(pids')
        /\ TerminateSignalsAll ]_vars

\* the second half of C13 alone
C13_TerminateBestEffort == [][TerminateSignalsAll]_vars

\* terminate() signalled the process popen was blocked on
TerminatedWhileBlocked == last.op = "terminate" /\ last.val # <<>>

\* C14: when terminate() is invoked while a step is blocked in an external
\* command, the pipeline does not resume: the popen of that command raises,
\* passive or not, and no later command is started.
C14_TerminateStopsPipeline ==
    TerminatedWhileBlocked =>
        /\ (proc.id = last.val[1] /\ PopenOver) => ppc = "raised"
        /\ \A i \in DOMAIN output : output[i][2] <= last.val[1]

Before == call.before[1]
EntryPointIndex(p) == IF p = GRUBCONF THEN 1 ELSE IF p = BOOTX64CONF THEN 2 ELSE 3

\* C15: install_bootloader on a destination without the isolinux directory
\* raises 'extract_iso must be run before install_bootloader' before any
\* file is removed, moved or written and before any tool is run.
C15_ExtractBeforeBootloader ==
    (/\ call.op = "install_bootloader"
     /\ dest # None
     /\ "isolinux" \notin DOMAIN Before)
        => /\ call.ret = ExtractFirst
           /\ call.effects = <<>>
           /\ destfs = Before

\* the check stopped a run that would have removed an old syslinux
\* directory and its ldlinux.sys
C15_Witness ==
    /\ call.op = "install_bootloader" /\ call.ret = ExtractFirst
    /\ "isolinux" \notin DOMAIN Before
    /\ {"syslinux", "syslinux/ldlinux.sys", "ldlinux.sys"} \subseteq DOMAIN destfs

C20_EfiAlwaysCopied ==
    (ExtractOver /\ xst.result = "ok" /\ xst.efi) => "cp_efi" \in xst.copied

\* ---- verify_iso_sha1 and calculate_device_checksum
\* some variant URL of the catalog ends in the file name of the image
NameInCatalog ==
    \E i \in DOMAIN releases : \E arch \in DOMAIN releases[i].variants :
        /\ "url" \in DOMAIN releases[i].variants[arch]
        /\ LET url == releases[i].variants[arch].url
           IN url[Len(url)] = iso[Len(iso)]
\* the first catalog entry one of whose variant URLs ends in that name
CatalogEntry ==
    LET named(i) == \E arch \in DOMAIN releases[i].variants :
                        /\ "url" \in DOMAIN releases[i].variants[arch]
                        /\ LET url == releases[i].variants[arch].url
                           IN url[Len(url)] = iso[Len(iso)]
    IN releases[CHOOSE i \in DOMAIN releases :
                    named(i) /\ \A j \in DOMAIN releases : named(j) => i <= j]
CarriedHashes == {"sha1", "sha256"} \cap DOMAIN CatalogEntry
\* verify_iso_sha1 ran on a selected image
Verified == call.op = "verify_iso_sha1" /\ iso # <<>>

\* C16: verify_iso_sha1 returns None, having hashed nothing and called no
\* progress function, exactly when no variant URL of the catalog ends in the
\* image's file name; when one does, the entry carries a hash and the image
\* opens, the algorithm is one the entry carries and the result is True if
\* the digest of the image equals the entry's value and False otherwise.
C16_UnknownIffNoCatalogName ==
    Verified =>
        /\ call.ret = "None" <=> ~NameInCatalog
        /\ ~NameInCatalog =>
              /\ call.alg = None
              /\ call.digest = <<>>
              /\ call.effects = <<>>
        /\ (NameInCatalog /\ CarriedHashes # {} /\ call.args[2]) =>
              /\ call.alg \in CarriedHashes
              /\ call.digest = hexdigest(call.alg, call.args[1])
              /\ call.ret = IF call.digest = CatalogEntry[call.alg]
                            THEN "True" ELSE "False"

\* the second entry of a catalog named the image and its SHA-256 matched
C16_Witness ==
    /\ Verified
    /\ NameInCatalog
    /\ call.alg = "sha256"
    /\ call.ret = "True"
    /\ Len(releases) = 2

\* C17: a catalog value that differs from the computed hex digest only in
\* the case of its letters makes verify_iso_sha1 return True.
C17_CaseInsensitiveCompare ==
    (/\ Verified
     /\ call.digest # <<>>
     /\ Upper(CatalogEntry[call.alg]) = Upper(call.digest))
        => call.ret = "True"

\* the device path of the drive itself, as the backend opens it
OwnDevicePath(d) == IF backend = "windows" THEN WinRaw(d.device) ELSE d.device
HasParent(d) == "parent" \in DOMAIN d /\ d.parent # None
\* calculate_device_checksum opened a device
DeviceSummed == call.op = "calculate_device_checksum" /\ call.read # <<>>

SpaceRefused == call.op = "check_free_space" /\ cfs = "LiveUSBError"

ErrorItems(tag) == {i \in DOMAIN proc.error : proc.error[i][1] = tag}

Hashed == Verified /\ call.ret \in {"True", "False"}
Reports == call.effects
\* the reads of a file of n bytes in 1 MiB chunks, the empty one included
ReadsOf(n) == (n + MiB - 1) \div MiB + 1

\* C28: verify_iso_sha1 on a catalog image declares the maximum, the image
\* size in KB, before any progress update; reports once after every read of
\* 1 MiB; the values reported never decrease, never exceed the maximum and
\* end at the maximum; and the loop ends.
C28_ProgressWithinMaximum ==
    Hashed =>
        /\ Reports[1] = [fn |-> "set_max_progress", value |-> isosize \div 1024]
        /\ Len(Reports) = 1 + ReadsOf(isosize)
        /\ \A i \in 2..Len(Reports) :
              /\ Reports[i].fn = "update_progress"
              /\ Reports[i].value <= Reports[1].value
              /\ i > 2 => Reports[i - 1].value <= Reports[i].value
        /\ Reports[Len(Reports)].value = Reports[1].value

\* an image of 1 MiB + 1 byte: two chunks and the empty read
C28_Witness ==
    /\ Hashed
    /\ isosize = MiB + 1
    /\ Len(Reports) = 4
    /\ Reports[2].value = 1024

\* ---- hashing in chunks
\* C29: the digest of the image fed to the hash in successive chunks, the
\* final empty read included, is the digest of the image hashed in one pass.
C29_ChunkingTransparent ==
    call.op = "hash" => call.digest = <<HashUpdate(HashNew, image)>>

\* five bytes: two full chunks, a short one and the empty read
C29_Witness ==
    /\ call.op = "hash"
    /\ Len(image) = 5
    /\ image[5] = 2

\* ---- the rewrite of one boot configuration line
\* _update_configs rewrote a line: the line read and the line written
Rewrote == call.op = "_update_configs" /\ call.ret = "ok"
LineIn  == call.before[1][call.args[1]][1]
LineOut == destfs[call.args[2]][1]
OverlayPrefixes == {"overlay=", "rd.live.overlay="}
IsOverlayRef(t) == t[1] = "LABEL" /\ t[2] \in OverlayPrefixes
\* the LABEL= and rootfstype= tokens of a line, each LABEL= token with the
\* text that follows it without a space; the overlay references left aside
RECURSIVE SubstTokens(_, _)
SubstTokens(line, inLabel) ==
    IF line = <<>> THEN <<>>
    ELSE LET t == Head(line) IN
         IF t[1] = "LABEL" /\ ~IsOverlayRef(t)
         THEN <<t>> \o SubstTokens(Tail(line), TRUE)
         ELSE IF t[1] = ":" /\ inLabel
         THEN <<t>> \o SubstTokens(Tail(line), TRUE)
         ELSE IF t[1] = "rootfstype"
         THEN <<t>> \o SubstTokens(Tail(line), FALSE)
         ELSE SubstTokens(Tail(line), FALSE)
\* the line read was written by _update_configs with the same label
OwnOutput ==
    /\ Rewrote
    /\ call.args[1] = "out1.cfg"
    /\ call.before[1]["out1.cfg"] =
           update_config_lines(call.before[1]["in.cfg"], call.args[3], fstype,
                               overlay, call.args[4])

TypeTokens(line) == SelectSeq(line, LAMBDA t : t[1] = "rootfstype")
LabelTexts(line) ==
    SelectSeq(SubstTokens(line, FALSE), LAMBDA t : t[1] # "rootfstype")
\* the first pass put the first LABEL into the line: an overlay reference
FirstPassBroughtLabel ==
    /\ ~HasLabel(call.before[1]["in.cfg"][1])
    /\ HasLabel(LineIn)

Occ(line, word) == Cardinality({i \in DOMAIN line : line[i] = W(word)})
OverlayRefs(line) == Cardinality({i \in DOMAIN line : IsOverlayRef(line[i])})
\* the boot parameter of a line: liveimg first, else rd.live.image, else None
BootParameter(line) ==
    IF Occ(line, "liveimg") > 0 THEN "liveimg"
    ELSE IF Occ(line, "rd.live.image") > 0 THEN "rd.live.image"
    ELSE None
\* how many times the kernel arguments of the call were inserted
ArgsInserted == Occ(LineOut, "a") - Occ(LineIn, "a")
RefsInjected == OverlayRefs(LineOut) - OverlayRefs(LineIn)
RoFlipped == Occ(LineOut, "rw") - Occ(LineIn, "rw")
InteriorRo(line) == \E i \in DOMAIN line : Flipped(line, i)

\* C27 as stated: a boot parameter line gets an overlay reference and its
\* ' ro ' turned to ' rw ' exactly when an overlay is requested, and the
\* kernel arguments exactly once exactly when they are supplied; other lines
\* get neither.
C27_ArgsExactlyOnce ==
    Rewrote =>
        IF BootParameter(LineIn) # None
        THEN /\ RefsInjected > 0 <=> overlay # 0
             /\ (InteriorRo(LineIn) /\ overlay # 0) <=> RoFlipped > 0
             /\ ArgsInserted = IF call.args[4] # <<>> THEN 1 ELSE 0
        ELSE RefsInjected = 0 /\ RoFlipped = 0 /\ ArgsInserted = 0

\* C27: a boot parameter line gets an overlay reference after every
\* occurrence of its boot parameter and its ' ro ' turned to ' rw ' exactly
\* when an overlay is requested, and the kernel arguments, space-separated,
\* after every occurrence of its boot parameter exactly when they are
\* supplied; other lines get neither.
C27_ArgsAfterEveryOccurrence ==
    Rewrote =>
        IF BootParameter(LineIn) # None
        THEN LET n == Occ(LineIn, BootParameter(LineIn)) IN
             /\ RefsInjected = IF overlay # 0 THEN n ELSE 0
             /\ (InteriorRo(LineIn) /\ overlay # 0) <=> RoFlipped > 0
             /\ Occ(LineOut, "ro") + Occ(LineOut, "rw")
                    = Occ(LineIn, "ro") + Occ(LineIn, "rw")
             /\ ArgsInserted = IF call.args[4] # <<>> THEN n ELSE 0
             /\ Occ(LineOut, "b") - Occ(LineIn, "b") = ArgsInserted
             /\ call.args[1] = "in.cfg" =>
                   \A i \in DOMAIN LineOut :
                       LineOut[i] = W("a") =>
                           /\ LineOut[i - 1] = W(BootParameter(LineIn))
                           /\ LineOut[i + 1] = W("b")
        ELSE RefsInjected = 0 /\ RoFlipped = 0 /\ ArgsInserted = 0

\* a line with one liveimg, an overlay and the arguments a,b
C27_Witness ==
    /\ Rewrote
    /\ call.args[1] = "in.cfg"
    /\ overlay = 1
    /\ call.args[4] = <<"a", "b">>
    /\ LineIn = <<W("quiet"), W("ro"), W("liveimg")>>
    /\ LineOut = <<W("quiet"), W("rw"), W("liveimg"), W("a"), W("b"),
                   <<"LABEL", "overlay=", call.args[3]>>>>

\* ---- create_persistent_overlay, verify_filesystem, bootable_partition
CommandsRun == SelectSeq(call.effects, LAMBDA e : e[1] = "popen")
LogsWritten == SelectSeq(call.effects, LAMBDA e : e[1] = "write_log")
ErrorsLogged == SelectSeq(call.effects, LAMBDA e : e[1] = "log.error")
OverlayMade ==
    /\ call.op = "create_persistent_overlay"
    /\ call.ret = "ok"
    /\ overlay > 0
OverlayFile == call.effects[Len(call.effects)][2]

\* C21: the overlay file create_persistent_overlay leaves for a requested
\* overlay of N > 0 MiB is exactly N MiB long on every filesystem type, and
\* the space it takes is no more than the N MiB check_free_space counted.
C21_OverlayExactSize ==
    OverlayMade =>
        /\ OverlayFile.size = overlay * MiB
        /\ OverlayFile.used <= overlay * MiB

OverlayReached ==
    /\ call.op = "create_persistent_overlay"
    /\ overlay > 0
    /\ dest # None
    /\ call.args[1]
IsZeroFill(cmd) == cmd.tool = "dd" /\ cmd.seek = 0 /\ cmd.count = overlay
IsSeekAllocation(cmd) == cmd.tool = "dd" /\ cmd.seek = overlay /\ cmd.count = 1

\* C22: create_persistent_overlay runs no command when the overlay is 0;
\* when it is not, it runs exactly one allocation command: the full
\* zero-fill for the accepted FAT types vfat and msdos, the seek-allocation
\* for the other accepted types.
C22_ZeroFillOnEveryFat ==
    call.op = "create_persistent_overlay" =>
        /\ overlay = 0 => call.effects = <<>>
        /\ OverlayReached =>
              /\ Len(CommandsRun) = 1
              /\ fstype \in valid_fstypes =>
                    IF fstype \in {"vfat", "msdos"}
                    THEN IsZeroFill(CommandsRun[1][2])
                    ELSE IsSeekAllocation(CommandsRun[1][2])

FlagRun == call.op = "bootable_partition" /\ DriveKind(drives, _drive) = "ok"
TableBefore == call.before[1]
TableAfter == call.read[1]
OwnPartition(part) == DevNode(part.node) = drives[_drive].device
Committed == \E i \in DOMAIN call.effects : call.effects[i][1] = "commit"

\* C23: bootable_partition touches no partition table when the selected
\* drive has no parent; otherwise the only partition whose boot flag it may
\* set is the one of the parent disk whose device path is the drive's, no
\* other partition is changed, and the table is committed only when that
\* flag was not set already.
C23_OnlyOwnBootFlag ==
    FlagRun =>
        /\ \A o \in BOOLEAN, c \in BOOLEAN :
              bootable_partition("ok", [drives[_drive] EXCEPT !.parent = None],
                                 TableBefore, o, c)
                  = [run |-> NewRun, table |-> TableBefore]
        /\ Len(TableAfter) = Len(TableBefore)
        /\ \A i \in DOMAIN TableBefore :
              \/ TableAfter[i] = TableBefore[i]
              \/ /\ OwnPartition(TableBefore[i])
                 /\ ~TableBefore[i].boot
                 /\ TableAfter[i] = [TableBefore[i] EXCEPT !.boot = TRUE]
        /\ \A i \in DOMAIN call.effects :
              call.effects[i][1] = "setFlag" =>
                  DevNode(call.effects[i][2]) = drives[_drive].device
        /\ Committed =>
              \E i \in DOMAIN TableBefore :
                  OwnPartition(TableBefore[i]) /\ ~TableBefore[i].boot

\* the flag of the drive's partition was set and committed next to another
\* partition that had the flag and kept it
C23_Witness ==
    /\ FlagRun
    /\ Committed
    /\ Len(TableBefore) = 2
    /\ ~OwnPartition(TableBefore[1]) /\ TableBefore[1].boot
    /\ OwnPartition(TableBefore[2])
    /\ TableAfter[2].boot /\ TableAfter[1] = TableBefore[1]

Relabelled == call.op = "verify_filesystem" /\ DriveKind(drives, _drive) = "ok"

\* C24: verify_filesystem on the selected drive raises exactly when the
\* filesystem type is not an accepted one; with an accepted type and the
\* label already in place it runs no label command; when the label differs,
\* a failing label command leaves its log and is not propagated, for the
\* FAT and the ext types alike.
C24_RaisesIffNotAccepted ==
    Relabelled =>
        /\ call.ret # "ok" <=> fstype \notin valid_fstypes
        /\ fstype \notin valid_fstypes => call.effects = <<>>
        /\ (fstype \in valid_fstypes /\ drives[_drive].label = call.args[1])
              => call.effects = <<>>
        /\ (fstype \in valid_fstypes /\ drives[_drive].label # call.args[1])
              => /\ Len(CommandsRun) = 1
                 /\ CommandsRun[1][2].tool =
                        (IF fstype \in {"vfat", "msdos"}
                         THEN "/sbin/dosfslabel" ELSE "/sbin/e2label")
                 /\ Len(LogsWritten) = (IF call.args[2] = 0 THEN 0 ELSE 1)
                 /\ Len(ErrorsLogged) =
                        (IF call.args[2] # 0 /\ fstype \notin {"vfat", "msdos"}
                         THEN 1 ELSE 0)

\* a label command failed on an ext filesystem and the call returned
C24_Witness ==
    /\ Relabelled
    /\ fstype = "ext4"
    /\ call.ret = "ok"
    /\ Len(CommandsRun) = 1
    /\ Len(ErrorsLogged) = 1

\* ---- mount_device
MountRan == last.op = "mount_device" /\ last.ret = "ok" /\ Selected

\* C31: mount_device on a drive whose record already has a mount point takes
\* that mount point as the destination and makes no mount request; on a
\* drive with no mount, a mount_device that succeeds fills the record's
\* mount and free fields, and the destination is the record's mount.
C31_MountReusedOrRecorded ==
    MountRan =>
        /\ last.pre = "mounted" =>
              /\ last.objs = <<>>
              /\ dest # None
              /\ dest = drives[_drive].mount
        /\ (last.pre = "unmounted" /\ last.passed) =>
              /\ drives[_drive].mount = last.path
              /\ dest = drives[_drive].mount
              /\ drives[_drive].free = <<StatFree(dest) \div MiB>>

\* a Mount call mounted a drive the inventory had without a mount point and
\* with no free-space figure
C31_Witness ==
    /\ MountRan
    /\ last.pre = "unmounted" /\ last.passed
    /\ last.objs = <<"Mount">>
    /\ dest = MountOf("sdb1")
    /\ drives[_drive].free = <<3>>

\* ---- delete_liveos
Deleted == call.op = "delete_liveos"
EffectAt(tag, path) ==
    {i \in DOMAIN call.effects : call.effects[i] = <<tag, path>>}
Precedes(a, b) == \A j \in b : \E i \in a : i < j

\* C32: delete_liveos clears the immutable attribute of every existing
\* ldlinux.sys before it unlinks it, clears the read-only attribute of
\* everything under each existing payload path (LiveOS, syslinux, isolinux)
\* before it removes that path, and ends with an error when a removal fails.
C32_ClearedBeforeRemoved ==
    Deleted =>
        /\ \A i \in DOMAIN LdlinuxPaths :
              Precedes(EffectAt("chattr -i", LdlinuxPaths[i]),
                       EffectAt("unlink", LdlinuxPaths[i]))
        /\ \A i \in DOMAIN PayloadPaths :
              \A q \in call.before[1] \ Range(LdlinuxPaths) :
                 Under(q, PayloadPaths[i]) =>
                    Precedes(EffectAt("chmod", q),
                             EffectAt("rmtree", PayloadPaths[i]))
        /\ (\E q \in call.read[1] : \E i \in DOMAIN PayloadPaths :
               q = PayloadPaths[i] /\ EffectAt("rmtree", q) # {})
              => call.ret # "ok"

\* ---- the selected key and the inventory
\* C33: after any sequence of selections, hotplug events and enumerations
\* the selected key is None or a key of the inventory, so that reading the
\* selected drive never fails with a missing key.
C33_SelectedKeyInInventory ==
    /\ _drive = None \/ _drive \in DOMAIN drives
    /\ DriveKind(drives, _drive) # "KeyError"
    /\ last.op = "drive" => last.ret # "KeyError"

\* ---- _set_drive
KnownByPath(arg) == \E k \in DOMAIN drives : drives[k].device = arg
SetDriveStep ==
    last'.op = "_set_drive" =>
        LET arg == last'.pre IN
        /\ (arg # None /\ arg \notin DOMAIN drives /\ ~KnownByPath(arg)) =>
              /\ last'.ret = "LiveUSBError"
              /\ UNCHANGED <<_drive, uuid, fstype>>
        /\ (arg # None /\ arg \notin DOMAIN drives /\ KnownByPath(arg)) =>
              /\ last'.ret = "ok"
              /\ _drive' \in DOMAIN drives
              /\ drives[_drive'].device = arg
        /\ (arg \in DOMAIN drives) => (last'.ret = "ok" /\ _drive' = arg)
        /\ UNCHANGED drives

\* C34: selecting a drive by a value that is neither a key of the inventory
\* nor the device path of one of its entries raises 'Cannot find device' and
\* leaves the selected key, the cached UUID and the cached filesystem type
\* as they were; selecting by device path selects the key of the entry with
\* that device path.
C34_UnknownValueLeavesSelection == [][SetDriveStep]_vars

\* an unknown value was refused while another drive was selected
C34_Witness ==
    /\ last.op = "_set_drive" /\ last.ret = "LiveUSBError"
    /\ last.pre = "/dev/nope"
    /\ _drive = "sdc1" /\ uuid = "u2" /\ fstype = "ext4"
    /\ DOMAIN drives = Keys

\* ---- unmount_device
Unmounted == last.op = "unmount_device" /\ last.ret = "ok" /\ Selected

\* C35: after unmount_device has returned, the record's mount field and the
\* destination are null only if the device is unmounted: a failed umount
\* never leaves them saying 'not mounted' while the device is mounted.
C35_NullOnlyIfUnmounted ==
    (Unmounted /\ drives[_drive].mount = None /\ dest = None) => last.passed

\* ---- the label of the volume
\* C36: after verify_filesystem has returned normally the volume carries the
\* desired label, the one update_configs writes as LABEL= into the boot
\* configuration and the overlay reference.
C36_VolumeCarriesLabel ==
    (Relabelled /\ call.ret = "ok") => call.read[1] = call.args[1]

\* ---- the Windows inventory
\* C37: on Windows, after any sequence of enumerations and selections, the
\* uuid of every inventory record is the volume serial of the record's own
\* drive (None when the serial could not be read): enumerating again after
\* a selection never gives the selected drive's UUID to the other drives.
C37_UuidOfOwnDrive ==
    backend = "windows" =>
        \A k \in DOMAIN drives :
            drives[k].uuid \in {None, SerialUuid(VolumeSerialNumber(k))}

\* ---- terminate and the tracked pids
\* C38: every pid terminate() signals is that of a subprocess spawned by
\* popen that has not completed yet; the pids of commands that have ended
\* and were reaped are not signalled.
C38_SignalsOnlyRunning ==
    last.op = "terminate" =>
        \A i \in DOMAIN last.sig : last.sig[i][2] = "ok"

\* ---- the error of extract_iso
ExtractRaised == xst.op = "extract_iso" /\ xst.result = "raised"

\* C39: when a copy step of extract_iso fails, the error that reaches the
\* caller is that of the copy step, never one of the umount run during the
\* cleanup; and when the loop mount fails, extract_iso raises without having
\* copied anything and without an umount.
C39_CopyErrorReachesCaller ==
    ExtractRaised =>
        /\ xst.failed # None => xst.error = xst.failed
        /\ xst.error = "mount" => (xst.copied = {} /\ xst.umounts = 0)

\* ---- the hotplug subscriptions
\* C40: each hotplug event invokes the change callback at most once, however
\* many times detect_removable_drives has been called.
C40_CallbackOncePerEvent ==
    last.op \in {"handleAdded", "handleRemoved"} => last.cb <= 1

====
